---- MODULE Spec2Model ----
(***************************************************************************)
(* Force-directed layout engine of nodeLink (ForceSimulation) together     *)
(* with the part of the graph view that constructs it and renders links.   *)
(*                                                                         *)
(* JavaScript numbers are modelled as fixed-point integers: one pixel is   *)
(* Scale units, every division truncates toward zero and Math.sqrt is the  *)
(* integer square root.  Positions, velocities and forces all use this     *)
(* resolution.  The running force sums of update() are kept to Precision   *)
(* significant bits, so that the order of the additions can show.          *)
(***************************************************************************)
EXTENDS Integers, Sequences, FiniteSets, TLC

\* ------------------------------------------------------------------------
\* Resolution and bounds of the model
\* ------------------------------------------------------------------------

\* fixed-point units per pixel
Scale == 64

\* largest number of update() calls in one behaviour
MaxTicks == 123

\* significant bits carried by a running force sum (a JavaScript number
\* carries 53)
Precision == 13

\* largest number of animate() ticks of the graph view in one behaviour
MaxAnimate == 5

\* largest number of initializeGraph() runs of the hook-based view
MaxInits == 3

\* largest number of initialize() calls made on one session manager
MaxInitCalls == 3

\* largest number of entities in the NLP results given to convertToGraphData
MaxEntities == 2

\* largest number of processText calls
MaxRuns == 3

\* largest number of graphData values given to the D3 view
MaxRequests == 3

\* number of ticks a D3 simulation makes before its alpha has decayed and
\* its timer stops
MaxSimTicks == 3

\* ------------------------------------------------------------------------
\* Configuration constants (GRAPH_CONFIG.layout) and engine constants
\* ------------------------------------------------------------------------

repulsionForce == 3000

repulsionDistance == 280

\* attractionForce: 0.06 = AttractionNum / AttractionDen
AttractionNum == 6

AttractionDen == 100

idealDistance == 250

\* damping: 0.9 = DampingNum / DampingDen
DampingNum == 9

DampingDen == 10

nodePadding == 80

maxStabilizationSteps == 120

\* setTimeout(resolve, 300) in initializeGraph
initDelay == 300

animationInterval == 50

\* containerHeight and nodeSpacing, used by handleResize
containerHeight == 1400

nodeSpacing == 120

\* ------------------------------------------------------------------------
\* Arithmetic
\* ------------------------------------------------------------------------

Abs(a) == IF a < 0 THEN -a ELSE a

Max(a, b) == IF a >= b THEN a ELSE b

Min(a, b) == IF a <= b THEN a ELSE b

\* a / b for b > 0, truncated toward zero
TDiv(a, b) == IF a >= 0 THEN a \div b ELSE -((-a) \div b)

RECURSIVE SqrtIter(_, _)
SqrtIter(n, x) ==
  LET y == (x + n \div x) \div 2
  IN  IF y >= x THEN x ELSE SqrtIter(n, y)

\* Math.sqrt on a non-negative fixed-point square: floor of the square root
Sqrt(n) == IF n < 2 THEN n ELSE SqrtIter(n, Min(n, 46340))

\* Math.sqrt(dx * dx + dy * dy).  Operands are scaled down by k when the
\* squares would not fit the integer width; on an axis the result is exact.
Distance(dx, dy) ==
  IF dy = 0 THEN Abs(dx)
  ELSE IF dx = 0 THEN Abs(dy)
  ELSE LET m == Max(Abs(dx), Abs(dy))
           k == m \div 32768 + 1
           tx == Abs(dx) \div k
           ty == Abs(dy) \div k
       IN  Sqrt(tx * tx + ty * ty) * k

RECURSIVE RoundTo(_, _)
RoundTo(m, unit) ==
  IF m \div unit < 2 ^ Precision THEN (m \div unit) * unit ELSE RoundTo(m, 2 * unit)

\* a number kept to Precision significant bits, the low bits dropped
Round(v) == IF v >= 0 THEN RoundTo(v, 1) ELSE -RoundTo(-v, 1)

\* a + b on numbers: the sum is kept to Precision significant bits, so that
\* (a + b) + c and (a + c) + b can differ in the last bit
FAdd(a, b) == Round(a + b)

\* ------------------------------------------------------------------------
\* ForceSimulation.update(): the per-node force computation
\* ------------------------------------------------------------------------

\* this.nodes.find(n => n.id === id): index of the first match, 0 = undefined
RECURSIVE FindFrom(_, _, _)
FindFrom(ns, id, i) ==
  IF i > Len(ns) THEN 0
  ELSE IF ns[i].id = id THEN i
  ELSE FindFrom(ns, id, i + 1)

Find(ns, id) == FindFrom(ns, id, 1)

\* the lookup result used without the check
OtherFound_Unchecked(idx) == TRUE

\* the guard `if (other)` in the attraction loop
OtherFound(idx) == idx # 0

\* the radius check without the zero-distance check
RepulsionApplies_NoZeroGuard(distance) == distance < repulsionDistance * Scale

\* the guard `distance > 0 && distance < repulsionDistance`
RepulsionApplies(distance) ==
  distance > 0 /\ distance < repulsionDistance * Scale

\* contribution of `other` to the repulsion on `node`; past the guard a zero
\* distance divides 0 by 0 (see RepulsionIsNaN) and no number is produced
Repulsion(node, other) ==
  IF other.id # node.id
  THEN LET dx == node.x - other.x
           dy == node.y - other.y
           distance == Distance(dx, dy)
       IN  IF RepulsionApplies(distance) /\ distance # 0
           THEN LET force == TDiv(repulsionForce * Scale * Scale * Scale,
                                  distance * distance)
                IN  [fx |-> TDiv(dx * force, distance),
                     fy |-> TDiv(dy * force, distance)]
           ELSE [fx |-> 0, fy |-> 0]
  ELSE [fx |-> 0, fy |-> 0]

\* dx / distance with dx = distance = 0 is NaN
RepulsionIsNaN(node, other) ==
  /\ other.id # node.id
  /\ LET distance == Distance(node.x - other.x, node.y - other.y)
     IN  RepulsionApplies(distance) /\ distance = 0

\* a link that pulls at any non-zero distance
AttractionApplies_AnyDistance(distance) == distance > 0

\* a link that already acts from half the ideal distance
AttractionApplies_HalfIdeal(distance) == 2 * distance > idealDistance * Scale

\* the guard `distance > idealDistance`
AttractionApplies(distance) == distance > idealDistance * Scale

\* contribution of one link to the attraction on `node`
Attraction(node, link, ns) ==
  IF link.source = node.id \/ link.target = node.id
  THEN LET otherId == IF link.source = node.id THEN link.target ELSE link.source
           idx == Find(ns, otherId)
       IN  IF OtherFound(idx) /\ idx # 0   \* idx = 0 past the guard throws, see AttractionThrows
           THEN LET other == ns[idx]
                    dx == other.x - node.x
                    dy == other.y - node.y
                    distance == Distance(dx, dy)
                IN  IF AttractionApplies(distance)
                    THEN LET force == TDiv(AttractionNum * (distance - idealDistance * Scale),
                                           AttractionDen)
                         IN  [fx |-> TDiv(dx * force, distance),
                              fy |-> TDiv(dy * force, distance)]
                    ELSE [fx |-> 0, fy |-> 0]
           ELSE [fx |-> 0, fy |-> 0]
  ELSE [fx |-> 0, fy |-> 0]

\* reading other.x when find() returned undefined raises a TypeError
AttractionThrows(node, link, ns) ==
  /\ link.source = node.id \/ link.target = node.id
  /\ LET otherId == IF link.source = node.id THEN link.target ELSE link.source
         idx == Find(ns, otherId)
     IN  OtherFound(idx) /\ idx = 0

\* fx += ..., fy += ... on the running force sums
AddForce(f, g) == [fx |-> FAdd(f.fx, g.fx), fy |-> FAdd(f.fy, g.fy)]

\* this.nodes.forEach(other => ...): the repulsion terms are added to the
\* running sums f in array order
RECURSIVE SumRepulsion(_, _, _, _)
SumRepulsion(f, node, ns, i) ==
  IF i > Len(ns) THEN f
  ELSE SumRepulsion(AddForce(f, Repulsion(node, ns[i])), node, ns, i + 1)

\* this.links.forEach(link => ...): the attraction terms are added to the
\* same running sums in link order
RECURSIVE SumAttraction(_, _, _, _, _)
SumAttraction(f, node, ls, ns, i) ==
  IF i > Len(ls) THEN f
  ELSE SumAttraction(AddForce(f, Attraction(node, ls[i], ns)), node, ls, ns, i + 1)

\* clamping against the lower bound only
Clamp_LowerOnly(v, dimension) == Max(nodePadding * Scale, v)

\* Math.max(nodePadding, Math.min(dimension - nodePadding, v))
Clamp(v, dimension) ==
  Max(nodePadding * Scale, Min(dimension - nodePadding * Scale, v))

\* a node object built afresh, without the spread of the old node
NewNode_NoSpread(node, ns, ls, dims) ==
  [id |-> node.id, label |-> "", x |-> node.x, y |-> node.y, vx |-> 0, vy |-> 0]

\* the body of this.nodes.map(node => ...)
NewNode(node, ns, ls, dims) ==
  LET rep == SumRepulsion([fx |-> 0, fy |-> 0], node, ns, 1)
      att == SumAttraction(rep, node, ls, ns, 1)
      fx == att.fx
      fy == att.fy
      newVx == TDiv((node.vx + fx) * DampingNum, DampingDen)
      newVy == TDiv((node.vy + fy) * DampingNum, DampingDen)
  IN  [node EXCEPT !.vx = newVx,
                   !.vy = newVy,
                   !.x = Clamp(node.x + newVx, dims.width),
                   !.y = Clamp(node.y + newVy, dims.height)]

\* node-by-node mutation: node i sees the new state of the nodes before it
RECURSIVE InPlaceFrom(_, _, _, _)
InPlaceFrom(ns, ls, dims, i) ==
  IF i > Len(ns) THEN ns
  ELSE InPlaceFrom([ns EXCEPT ![i] = NewNode(ns[i], ns, ls, dims)], ls, dims, i + 1)

UpdateNodes_InPlace(ns, ls, dims) == InPlaceFrom(ns, ls, dims, 1)

\* this.nodes.map(...): every new node is computed from this.nodes as it
\* was when update() was called
UpdateNodes(ns, ls, dims) ==
  [i \in 1..Len(ns) |-> NewNode(ns[i], ns, ls, dims)]

UpdateThrows(ns, ls) ==
  \E i \in 1..Len(ns) : \E j \in 1..Len(ls) : AttractionThrows(ns[i], ls[j], ns)

UpdateIsNaN(ns) ==
  \E i \in 1..Len(ns) : \E j \in 1..Len(ns) : RepulsionIsNaN(ns[i], ns[j])

\* a counter that advances by two per tick
NextSteps_ByTwo(stabilizing, steps) ==
  IF stabilizing THEN steps + 2 ELSE steps

\* a counter that keeps counting when no run is in progress
NextSteps_Always(stabilizing, steps) == steps + 1

\* `if (this.isStabilizing) this.stabilizationSteps++`
NextSteps(stabilizing, steps) ==
  IF stabilizing THEN steps + 1 ELSE steps

\* a run that ends one tick late (> instead of >=)
NextStabilizing_Late(stabilizing, steps) ==
  IF stabilizing /\ steps > maxStabilizationSteps THEN FALSE ELSE stabilizing

\* a run that never ends
NextStabilizing_Never(stabilizing, steps) == stabilizing

\* `if (this.stabilizationSteps >= this.maxStabilizationSteps) this.isStabilizing = false`
NextStabilizing(stabilizing, steps) ==
  IF stabilizing /\ steps >= maxStabilizationSteps THEN FALSE ELSE stabilizing

\* an early return that forgets the height
UpdateIsNoOp_IgnoresHeight(ns, dims) ==
  Len(ns) = 0 \/ dims.width = 0

\* the early return of update()
UpdateIsNoOp(ns, dims) ==
  Len(ns) = 0 \/ dims.width = 0 \/ dims.height = 0

\* ------------------------------------------------------------------------
\* Inputs
\* ------------------------------------------------------------------------

\* a node at rest, coordinates in quarter pixels
Node(id, x4, y4) ==
  [id |-> id, label |-> id,
   x |-> (x4 * Scale) \div 4, y |-> (y4 * Scale) \div 4, vx |-> 0, vy |-> 0]

Link(s, t) == [source |-> s, target |-> t]

Dims(w, h) == [width |-> w * Scale, height |-> h * Scale]

\* arguments of `new ForceSimulation(nodes, links, dimensions)`
Scenarios ==
  { [nodes |-> << >>, links |-> << >>, dimensions |-> Dims(400, 400)],
    [nodes |-> << Node("a", 0, 0), Node("b", 2000, 0) >>, links |-> << >>,
     dimensions |-> Dims(400, 400)],
    [nodes |-> << Node("a", 0, 0), Node("b", 2000, 0) >>, links |-> << >>,
     dimensions |-> Dims(100, 400)],
    [nodes |-> << Node("a", 800, 800), Node("b", 1200, 800) >>, links |-> << >>,
     dimensions |-> Dims(0, 400)],
    [nodes |-> << Node("a", 800, 800), Node("b", 1200, 800) >>, links |-> << >>,
     dimensions |-> Dims(400, 0)],
    [nodes |-> << Node("a", 800, 800), Node("b", 800, 800) >>, links |-> << >>,
     dimensions |-> Dims(400, 400)],
    [nodes |-> << Node("a", 0, 0), Node("b", 0, 0) >>, links |-> << >>,
     dimensions |-> Dims(400, 400)],
    [nodes |-> << Node("a", 800, 320), Node("b", 800, 1322) >>,
     links |-> << Link("a", "b") >>, dimensions |-> Dims(400, 1400)],
    [nodes |-> << Node("a", 800, 800), Node("b", 800, 1200) >>, links |-> << >>,
     dimensions |-> Dims(400, 1400)],
    [nodes |-> << Node("x", 800, 800) >>, links |-> << Link("x", "missing") >>,
     dimensions |-> Dims(400, 400)],
    [nodes |-> << Node("a", 400, 400), Node("b", 1200, 400), Node("c", 800, 1200) >>,
     links |-> << Link("a", "b"), Link("b", "c") >>, dimensions |-> Dims(400, 400)],
    [nodes |-> << Node("p", 800, 800), Node("q", 761, 800), Node("r", 785, 800),
                  Node("s", 814, 800) >>,
     links |-> << >>, dimensions |-> Dims(400, 400)] }

\* externalData handed to the graph view (non-empty node lists; a zero
\* coordinate stands for a node without a position)
ExternalInputs ==
  { [nodes |-> << Node("x", 400, 400), Node("y", 1600, 400) >>,
     links |-> << Link("x", "missing"), Link("x", "y") >>],
    [nodes |-> << Node("x", 400, 400), Node("y", 1600, 400) >>,
     links |-> << Link("x", "y") >>],
    [nodes |-> << Node("x", 0, 400), Node("y", 1200, 2400) >>,
     links |-> << Link("gone", "y") >>] }

\* dimensions state of the view: its initial value and a measured sidebar
ViewDimensions == { Dims(400, 1200), Dims(320, 3000) }

\* width measured by handleResize; the height it sets is
\* Math.max(containerHeight, 25 * nodeSpacing)
ResizeDimensions ==
  { Dims(w, Max(containerHeight, 25 * nodeSpacing)) : w \in {320, 640} }

\* Math.random() * (dimension - 200) + 100 for two values of Math.random()
RandomPositions(dimension) ==
  { 100 * Scale, 100 * Scale + (dimension - 200 * Scale) \div 2 }

\* ------------------------------------------------------------------------
\* Graph view: initializeGraph and the renderers
\* ------------------------------------------------------------------------

RECURSIVE SumX(_, _)
SumX(ns, i) == IF i > Len(ns) THEN 0 ELSE ns[i].x + SumX(ns, i + 1)

RECURSIVE SumY(_, _)
SumY(ns, i) == IF i > Len(ns) THEN 0 ELSE ns[i].y + SumY(ns, i + 1)

\* rawNodes of initializeGraph: node.x || random, node.y || random, velocity reset
RawNodes(extNodes, rx, ry) ==
  [i \in 1..Len(extNodes) |->
     [extNodes[i] EXCEPT !.x = IF extNodes[i].x # 0 THEN extNodes[i].x ELSE rx,
                         !.y = IF extNodes[i].y # 0 THEN extNodes[i].y ELSE ry,
                         !.vx = 0,
                         !.vy = 0]]

\* centeredNodes of initializeGraph
CenteredNodes(rawNodes, dims) ==
  LET centerX == TDiv(SumX(rawNodes, 1), Len(rawNodes))
      centerY == TDiv(SumY(rawNodes, 1), Len(rawNodes))
      offsetX == TDiv(dims.width, 2) - centerX
      offsetY == TDiv(dims.height, 2) - centerY
  IN  [i \in 1..Len(rawNodes) |->
         [rawNodes[i] EXCEPT !.x = rawNodes[i].x + offsetX,
                             !.y = rawNodes[i].y + offsetY]]

\* links handed to the engine by initializeGraph: externalData.links || []
EngineLinks(extLinks) == extLinks

\* the guard `if (!sourceNode || !targetNode) return null` of LinkRenderer
EndpointMissing(s, t) == s = 0 \/ t = 0

\* LinkRenderer: one entry per link, "null" when an endpoint is not found
RenderLink(link, ns) ==
  LET s == Find(ns, link.source)
      t == Find(ns, link.target)
  IN  IF EndpointMissing(s, t) \/ s = 0 \/ t = 0   \* past the guard see RenderThrows
      THEN [kind |-> "null"]
      ELSE [kind |-> "path", x1 |-> ns[s].x, y1 |-> ns[s].y,
            x2 |-> ns[t].x, y2 |-> ns[t].y]

\* reading sourceNode.x or targetNode.x of undefined raises a TypeError
RenderThrows(ls, ns) ==
  \E j \in 1..Len(ls) :
    LET s == Find(ns, ls[j].source)
        t == Find(ns, ls[j].target)
    IN  ~EndpointMissing(s, t) /\ (s = 0 \/ t = 0)

RenderLinks(ls, ns) == [j \in 1..Len(ls) |-> RenderLink(ls[j], ns)]

\* NodeRenderer: one circle group per node
RenderNodes(ns) == [i \in 1..Len(ns) |-> [key |-> ns[i].id, cx |-> ns[i].x, cy |-> ns[i].y]]

\* ------------------------------------------------------------------------
\* State
\* ------------------------------------------------------------------------

VARIABLES
  engine,              \* forceSimulation.current: "none", built by "new" or by the "view"
  nodes,               \* this.nodes
  links,               \* this.links
  dimensions,          \* this.dimensions
  isStabilizing,       \* this.isStabilizing
  stabilizationSteps,  \* this.stabilizationSteps
  returned,            \* value returned by the last update() call
  threw,               \* an update() call raised an exception
  nan,                 \* an update() call produced a NaN coordinate
  ticks,               \* number of update() calls made so far
  lastCall,            \* the last call made on the engine
  sinceStart,          \* number of update() calls since the last startStabilization()
  runStarted,          \* whether startStabilization() has been called on this engine
  pairRun,             \* two linked nodes approaching each other, see PairKind
  externalData,        \* the data prop of the graph view
  hoveredNode,         \* hoveredNode state of the graph view, "none" for null
  selectedNode,        \* selectedNode state of the graph view, "none" for null
  event,               \* the last pointer event handled by the graph view
  hookPending,         \* hook-based view: initializeGraph() runs inside their delay,
                       \*   oldest first, each with the ticks seen since it began
  hookInstalled,       \* hook-based view: number of node sets installed by setData
  hookStabilizing,     \* hook-based view: isStabilizing state
  hookLoading,         \* hook-based view: isLoading state
  hookSteps,           \* hook-based view: stabilizationSteps.current
  hookReceived,        \* hook-based view: ticks applied to the installed node set
  modelStatus,         \* the browser's LanguageModel: what availability() and create() do
  session,             \* sessionManager.session: "null" or "active"
  isInitialized,       \* sessionManager.isInitialized
  initializationPromise, \* sessionManager.initializationPromise: "none", "pending",
                       \*   "resolved" or "rejected"
  call,                \* the analysis call in progress and where it stands
  callResult,          \* what the last finished analysis call resolved to
  lastParse,           \* argument and outcome of the last _parseJSONResponse call
  graphData,           \* graphData state of the app, the prop of the graph view
  graphInit,           \* outcome of the graph view's initializeGraph for graphData
  d3Mounted,           \* the D3 graph view is mounted
  d3Requested,         \* number of graphData values the D3 view has been given
  d3Requests,          \* initializeGraph() runs of the D3 view that are in their delay
  d3Data,              \* data state of the D3 view: serial of the installed graph, 0 for null
  d3Loading,           \* isLoading state of the D3 view
  d3Stabilizing,       \* isStabilizingRef.current of the D3 view
  d3Steps,             \* stabilizationSteps.current of the D3 view
  d3Error,             \* error state of the D3 view, "none" for null
  d3Sims,              \* the D3 simulations created so far
  d3SimRef,            \* simulationRef.current: index in d3Sims, 0 for null
  d3LastValid,         \* serial of the latest graphData that has nodes and links
  d3Overlapped,        \* an initializeGraph() run started while another was in its delay
  d3TickedAfterTeardown, \* a simulation ticked after the view was unmounted
  attempts,            \* number of _doInitialize() runs started
  createCalls,         \* number of LanguageModel.create() invocations
  initReturned,        \* for each initialize() call, the attempt whose promise it returned
  destroying,          \* session.destroy() has been called and has not resolved
  systemPrompt,        \* GEMINI_CONFIG.systemPrompt
  sessionPrompt,       \* the system prompt the session was created with
  promptTarget,        \* what this.session was when session.prompt was last called
  updated,             \* updateSystemPrompt() hit an active session and no call followed yet
  lastEnsure,          \* the last _ensureInitialized() of an analysis call
  nlpResults,          \* argument of convertToGraphData
  converted,           \* what convertToGraphData returned
  isProcessing,        \* isProcessing state of the text processor
  textPc,              \* where the running processText call is
  textLog,             \* how the steps of the last processText call ended
  textRuns             \* number of processText calls that set isProcessing

viewVars == << externalData, hoveredNode, selectedNode, event >>

hookVars == << hookPending, hookInstalled, hookStabilizing, hookLoading,
               hookSteps, hookReceived >>

aiVars == << modelStatus, session, isInitialized, initializationPromise,
             call, callResult, lastParse, graphData, graphInit >>

d3Vars == << d3Mounted, d3Requested, d3Requests, d3Data, d3Loading, d3Stabilizing,
             d3Steps, d3Error, d3Sims, d3SimRef, d3LastValid, d3Overlapped,
             d3TickedAfterTeardown >>

sessVars == << attempts, createCalls, initReturned, destroying, systemPrompt,
               sessionPrompt, promptTarget, updated, lastEnsure >>

\* the variables of the D3 view, the converter and the text processor
convVars == << nlpResults, converted >>

textVars == << isProcessing, textPc, textLog, textRuns >>

uiVars == << d3Vars, convVars, textVars >>

restVars == << uiVars, sessVars >>

engineVars == << engine, nodes, links, dimensions, isStabilizing, stabilizationSteps,
                 returned, threw, nan, ticks, lastCall, sinceStart, runStarted, pairRun >>

vars == << engine, nodes, links, dimensions, isStabilizing, stabilizationSteps,
           returned, threw, nan, ticks, lastCall, sinceStart, runStarted, pairRun,
           externalData, hoveredNode, selectedNode, event,
           hookPending, hookInstalled, hookStabilizing, hookLoading,
           hookSteps, hookReceived,
           modelStatus, session, isInitialized, initializationPromise,
           call, callResult, lastParse, graphData, graphInit, restVars >>

NoData == [nodes |-> << >>, links |-> << >>]

NoEvent == [kind |-> "none", id |-> "none"]

\* state of the graph view after the first render
ViewInit ==
  /\ externalData = NoData
  /\ hoveredNode = "none"
  /\ selectedNode = "none"
  /\ event = NoEvent

\* a JSON value, as far as the app looks at it
NoValue == [kind |-> "none", json |-> "none", rawResponse |-> << >>, parsed |-> FALSE]

\* the demo graph the app installs when it mounts
DemoGraph == [kind |-> "value", json |-> "GRAPH", rawResponse |-> << >>, parsed |-> TRUE]

\* null
NullValue == [kind |-> "value", json |-> "null", rawResponse |-> << >>, parsed |-> TRUE]

IdleCall == [pc |-> "idle", method |-> "none", arg |-> "none", caller |-> "none"]

NoResult ==
  [enhanced |-> FALSE, threw |-> FALSE, original |-> "none", keywords |-> "none",
   payload |-> NoValue, error |-> "none"]

NoParse == [called |-> FALSE, response |-> << >>, isString |-> TRUE,
            threw |-> FALSE, result |-> NoValue]

\* the session manager after construction, the app after mounting
AIInit(status) ==
  /\ modelStatus = status
  /\ session = "null"
  /\ isInitialized = FALSE
  /\ initializationPromise = "none"
  /\ call = IdleCall
  /\ callResult = NoResult
  /\ lastParse = NoParse
  /\ graphData = DemoGraph
  /\ graphInit = "ok"

\* state of the hook-based view after the first render
HookInit ==
  /\ hookPending = << >>
  /\ hookInstalled = 0
  /\ hookStabilizing = FALSE
  /\ hookLoading = TRUE
  /\ hookSteps = 0
  /\ hookReceived = 0

NoReturn == [called |-> FALSE, value |-> << >>]

constructed == engine # "none"

\* distance between the two nodes of a pair
PairDistance(ns) == Distance(ns[2].x - ns[1].x, ns[2].y - ns[1].y)

InsideClamp(node, dims) ==
  /\ nodePadding * Scale <= node.x /\ node.x <= dims.width - nodePadding * Scale
  /\ nodePadding * Scale <= node.y /\ node.y <= dims.height - nodePadding * Scale

\* classifies the arguments of the constructor: exactly two nodes at rest,
\* joined by exactly one link, farther apart than idealDistance.  "far": at
\* least repulsionDistance apart and both inside the clamp rectangle
PairKind(ns, ls, dims) ==
  IF /\ Len(ns) = 2 /\ Len(ls) = 1
     /\ ns[1].id # ns[2].id
     /\ {ls[1].source, ls[1].target} = {ns[1].id, ns[2].id}
     /\ \A i \in 1..2 : ns[i].vx = 0 /\ ns[i].vy = 0
     /\ dims.width # 0 /\ dims.height # 0
     /\ PairDistance(ns) > idealDistance * Scale
  THEN IF /\ PairDistance(ns) >= repulsionDistance * Scale
          /\ \A i \in 1..2 : InsideClamp(ns[i], dims)
       THEN "far"
       ELSE "near"
  ELSE "none"

\* the D3 view after its first render: graphData is null, so the effect
\* on graphData reports the missing data
D3Init ==
  /\ d3Mounted = TRUE
  /\ d3Requested = 0
  /\ d3Requests = << >>
  /\ d3Data = 0
  /\ d3Loading = FALSE
  /\ d3Stabilizing = FALSE
  /\ d3Steps = 0
  /\ d3Error = "No graph data available"
  /\ d3Sims = << >>
  /\ d3SimRef = 0
  /\ d3LastValid = 0
  /\ d3Overlapped = FALSE
  /\ d3TickedAfterTeardown = FALSE

\* no _ensureInitialized() has run
NoEnsure == [called |-> FALSE, value |-> FALSE, afterUpdate |-> FALSE, afterFailure |-> FALSE,
             available |-> FALSE, fresh |-> FALSE]

\* the session manager after its constructor, with the configured prompt
SessInit ==
  /\ attempts = 0
  /\ createCalls = 0
  /\ initReturned = << >>
  /\ destroying = FALSE
  /\ systemPrompt = "configured"
  /\ sessionPrompt = "none"
  /\ promptTarget = "none"
  /\ updated = FALSE
  /\ lastEnsure = NoEnsure

\* convertToGraphData has not been called
NotConverted == [called |-> FALSE, nodes |-> << >>, links |-> << >>]

NoNLPResults == [entities |-> << >>, aiRelationships |-> << >>, relationships |-> << >>]

ConvInit ==
  /\ nlpResults = NoNLPResults
  /\ converted = NotConverted

\* no step of processText has run
NoTextLog == [backend |-> "none", model |-> "none", display |-> "none", reset |-> "none"]

TextInit ==
  /\ isProcessing = FALSE
  /\ textPc = "idle"
  /\ textLog = NoTextLog
  /\ textRuns = 0

RestInit ==
  /\ D3Init
  /\ SessInit
  /\ ConvInit
  /\ TextInit

EngineInit ==
  /\ engine = "none"
  /\ nodes = << >>
  /\ links = << >>
  /\ dimensions = Dims(0, 0)
  /\ isStabilizing = FALSE
  /\ stabilizationSteps = 0
  /\ returned = NoReturn
  /\ threw = FALSE
  /\ nan = FALSE
  /\ ticks = 0
  /\ lastCall = "none"
  /\ sinceStart = 0
  /\ runStarted = FALSE
  /\ pairRun = "none"

Init ==
  /\ EngineInit
  /\ ViewInit
  /\ HookInit
  /\ AIInit("available")
  /\ RestInit

\* new ForceSimulation(nodes, links, dimensions)
Construct ==
  /\ engine = "none"
  /\ \E sc \in Scenarios :
       /\ nodes' = sc.nodes
       /\ links' = sc.links
       /\ dimensions' = sc.dimensions
       /\ pairRun' = PairKind(sc.nodes, sc.links, sc.dimensions)
  /\ engine' = "new"
  /\ isStabilizing' = FALSE
  /\ stabilizationSteps' = 0
  /\ lastCall' = "new"
  /\ UNCHANGED << returned, threw, nan, ticks, sinceStart, runStarted >>
  /\ UNCHANGED << viewVars, hookVars, aiVars, restVars >>

\* initializeGraph of the graph view with external data: builds the engine
\* from the centred nodes and the links as given, and starts stabilization
InitializeGraph ==
  /\ engine = "none"
  /\ \E ext \in ExternalInputs, dims \in ViewDimensions :
       \E rx \in RandomPositions(dims.width), ry \in RandomPositions(dims.height) :
         /\ dims.width # 0 /\ dims.height # 0
         /\ Len(ext.nodes) > 0
         /\ nodes' = CenteredNodes(RawNodes(ext.nodes, rx, ry), dims)
         /\ links' = EngineLinks(ext.links)
         /\ dimensions' = dims
         /\ pairRun' = PairKind(nodes', links', dims)
         /\ externalData' = ext
  /\ engine' = "view"
  /\ isStabilizing' = TRUE
  /\ stabilizationSteps' = 0
  /\ lastCall' = "start"
  /\ sinceStart' = 0
  /\ runStarted' = TRUE
  /\ UNCHANGED << returned, threw, nan, ticks >>
  /\ UNCHANGED << hoveredNode, selectedNode, event, hookVars, aiVars, restVars >>

\* startStabilization()
StartStabilization ==
  /\ constructed
  /\ isStabilizing' = TRUE
  /\ stabilizationSteps' = 0
  /\ lastCall' = "start"
  /\ sinceStart' = 0
  /\ runStarted' = TRUE
  /\ UNCHANGED << engine, nodes, links, dimensions, returned, threw, nan, ticks, pairRun >>
  /\ UNCHANGED << viewVars, hookVars, aiVars, restVars >>

\* update()
Update ==
  /\ constructed
  /\ ticks < MaxTicks
  /\ ticks' = ticks + 1
  /\ sinceStart' = sinceStart + 1
  /\ UNCHANGED runStarted
  /\ lastCall' = "update"
  /\ IF UpdateIsNoOp(nodes, dimensions)
     THEN /\ returned' = [called |-> TRUE, value |-> nodes]
          /\ UNCHANGED << nodes, isStabilizing, stabilizationSteps, threw, nan, pairRun >>
     ELSE IF UpdateThrows(nodes, links)
     THEN /\ threw' = TRUE
          /\ UNCHANGED << nodes, isStabilizing, stabilizationSteps, returned, nan, pairRun >>
     ELSE LET newNodes == UpdateNodes(nodes, links, dimensions)
              steps == NextSteps(isStabilizing, stabilizationSteps)
          IN  /\ nodes' = newNodes
              /\ returned' = [called |-> TRUE, value |-> newNodes]
              /\ stabilizationSteps' = steps
              /\ isStabilizing' = NextStabilizing(isStabilizing, steps)
              /\ nan' = (nan \/ UpdateIsNaN(nodes))
              /\ pairRun' = IF pairRun # "none" /\ PairDistance(newNodes) > idealDistance * Scale
                            THEN pairRun ELSE "none"
              /\ UNCHANGED threw
  /\ UNCHANGED << engine, links, dimensions >>
  /\ UNCHANGED << viewVars, hookVars, aiVars, restVars >>

\* progress measured against one tick less than the budget
getProgress_ShortBudget ==
  [num |-> stabilizationSteps, den |-> maxStabilizationSteps - 1]

\* isStabilized()
isStabilized == ~isStabilizing

\* getProgress(): the fraction stabilizationSteps / maxStabilizationSteps
getProgress == [num |-> stabilizationSteps, den |-> maxStabilizationSteps]

Next == Construct \/ InitializeGraph \/ StartStabilization \/ Update

Spec == Init /\ [][Next]_vars

\* ------------------------------------------------------------------------
\* A single linked pair: the engine constructed over two nodes at rest that
\* are joined by one link, then ticked
\* ------------------------------------------------------------------------

\* positions of the second node (quarter pixels); the first is one of two
\* corners of the grid
PairInputs ==
  { [nodes |-> << Node("a", ax, ay), Node("b", bx, by) >>,
     links |-> << l >>, dimensions |-> d] :
      ax \in {320, 800}, ay \in {320},
      bx \in {320, 800, 1280}, by \in {1321, 1322, 1328, 1440, 2000, 3600, 5280},
      l \in {Link("a", "b"), Link("b", "a")},
      d \in {Dims(400, 1400)} }
  \cup
  { [nodes |-> << Node("a", 320, 320), Node("b", bx, by) >>,
     links |-> << Link("a", "b") >>, dimensions |-> Dims(1400, 1400)] :
      bx \in {1440, 3000, 5280}, by \in {320, 3000, 5280} }

PairInit ==
  \E sc \in PairInputs :
    /\ engine = "new"
    /\ nodes = sc.nodes
    /\ links = sc.links
    /\ dimensions = sc.dimensions
    /\ isStabilizing = FALSE
    /\ stabilizationSteps = 0
    /\ returned = NoReturn
    /\ threw = FALSE
    /\ nan = FALSE
    /\ ticks = 0
    /\ lastCall = "new"
    /\ sinceStart = 0
    /\ runStarted = FALSE
    /\ pairRun = PairKind(sc.nodes, sc.links, sc.dimensions)
    /\ ViewInit
    /\ HookInit
    /\ AIInit("available")
  /\ RestInit

PairNext == Update

SpecPair == PairInit /\ [][PairNext]_vars

\* ------------------------------------------------------------------------
\* The graph view around the engine: animation ticks, resize, hover, click
\* ------------------------------------------------------------------------

\* animate(): one interval tick of the view calls update() on the engine
Animate ==
  /\ engine = "view"
  /\ ticks < MaxAnimate
  /\ Update

\* handleResize() stores the measured dimensions; the change of width or
\* height re-runs initializeGraph, which rebuilds the nodes from
\* externalData, centres them in the new dimensions and replaces the engine
Resize ==
  /\ engine = "view"
  /\ \E dims \in ResizeDimensions :
       \E rx \in RandomPositions(dims.width), ry \in RandomPositions(dims.height) :
         /\ dims # dimensions
         /\ dims.width # 0 /\ dims.height # 0
         /\ Len(externalData.nodes) > 0
         /\ nodes' = CenteredNodes(RawNodes(externalData.nodes, rx, ry), dims)
         /\ links' = EngineLinks(externalData.links)
         /\ dimensions' = dims
         /\ pairRun' = PairKind(nodes', links', dims)
  /\ isStabilizing' = TRUE
  /\ stabilizationSteps' = 0
  /\ lastCall' = "start"
  /\ sinceStart' = 0
  /\ runStarted' = TRUE
  /\ UNCHANGED << engine, returned, threw, nan, ticks >>
  /\ UNCHANGED << viewVars, hookVars, aiVars, restVars >>

\* a click handler that only ever selects
ClickResult_SelectOnly(selected, nodeId) == nodeId

\* selectedNode === nodeId ? null : nodeId
ClickResult(selected, nodeId) == IF selected = nodeId THEN "none" ELSE nodeId

\* handleNodeHover(nodeId): onMouseEnter passes the node's id, onMouseLeave null
HandleNodeHover ==
  /\ engine = "view"
  /\ \E id \in {nodes[i].id : i \in 1..Len(nodes)} \cup {"none"} :
       /\ hoveredNode' = id
       /\ event' = [kind |-> "hover", id |-> id]
  /\ UNCHANGED << engine, nodes, links, dimensions, isStabilizing, stabilizationSteps,
                  returned, threw, nan, ticks, lastCall, sinceStart, runStarted, pairRun >>
  /\ UNCHANGED << externalData, selectedNode, hookVars, aiVars, restVars >>

\* handleNodeClick(nodeId)
HandleNodeClick ==
  /\ engine = "view"
  /\ \E id \in {nodes[i].id : i \in 1..Len(nodes)} :
       /\ selectedNode' = ClickResult(selectedNode, id)
       /\ event' = [kind |-> "click", id |-> id]
  /\ UNCHANGED << engine, nodes, links, dimensions, isStabilizing, stabilizationSteps,
                  returned, threw, nan, ticks, lastCall, sinceStart, runStarted, pairRun >>
  /\ UNCHANGED << externalData, hoveredNode, hookVars, aiVars, restVars >>

\* onClose of the node detail panel: setSelectedNode(null)
CloseDetail ==
  /\ engine = "view"
  /\ selectedNode # "none"
  /\ selectedNode' = "none"
  /\ event' = [kind |-> "close", id |-> "none"]
  /\ UNCHANGED << engine, nodes, links, dimensions, isStabilizing, stabilizationSteps,
                  returned, threw, nan, ticks, lastCall, sinceStart, runStarted, pairRun >>
  /\ UNCHANGED << externalData, hoveredNode, hookVars, aiVars, restVars >>

ViewNext ==
  \/ InitializeGraph
  \/ Animate
  \/ Resize
  \/ HandleNodeHover
  \/ HandleNodeClick
  \/ CloseDetail

SpecView == Init /\ [][ViewNext]_vars

\* ------------------------------------------------------------------------
\* The hook-based graph view: the tick counter is a ref of the component,
\* the running flag is component state, and initializeGraph() waits
\* initDelay before it installs the new node set
\* ------------------------------------------------------------------------

\* interval ticks that fit into the delay of initializeGraph()
TicksPerDelay == initDelay \div animationInterval

\* initializeGraph() after its delay leaves stabilizationSteps.current alone
InstallSteps(steps) == steps

\* initializeGraph() up to its await: runs on the first render and whenever
\* width, height or externalData change
HookInitializeGraph ==
  /\ Len(hookPending) + hookInstalled < MaxInits
  /\ hookLoading' = TRUE
  /\ hookSteps' = 0
  /\ hookPending' = Append(hookPending, 0)
  /\ UNCHANGED << hookInstalled, hookStabilizing, hookReceived >>
  /\ UNCHANGED << engineVars, viewVars, aiVars, restVars >>

\* initializeGraph() after its await: setData(centred nodes), setIsStabilizing(true)
HookInstall ==
  /\ hookPending # << >>
  /\ hookPending' = Tail(hookPending)
  /\ hookInstalled' = hookInstalled + 1
  /\ hookReceived' = 0
  /\ hookStabilizing' = TRUE
  /\ hookSteps' = InstallSteps(hookSteps)
  /\ UNCHANGED hookLoading
  /\ UNCHANGED << engineVars, viewVars, aiVars, restVars >>

\* animate(): the interval runs once a node set is installed; the tick moves
\* the installed nodes and, while isStabilizing, counts
HookAnimate ==
  /\ hookInstalled > 0
  /\ hookReceived < MaxTicks
  /\ \A k \in 1..Len(hookPending) : hookPending[k] < TicksPerDelay
  /\ hookPending' = [k \in 1..Len(hookPending) |-> hookPending[k] + 1]
  /\ hookReceived' = hookReceived + 1
  /\ hookSteps' = NextSteps(hookStabilizing, hookSteps)
  /\ hookStabilizing' = NextStabilizing(hookStabilizing, hookSteps')
  /\ hookLoading' = IF hookStabilizing /\ ~hookStabilizing' THEN FALSE ELSE hookLoading
  /\ UNCHANGED hookInstalled
  /\ UNCHANGED << engineVars, viewVars, aiVars, restVars >>

HookNext == HookInitializeGraph \/ HookInstall \/ HookAnimate

SpecHook == Init /\ [][HookNext]_vars

\* ------------------------------------------------------------------------
\* Model responses and _parseJSONResponse
\*
\* A response is a sequence of tokens: the fence marker "FENCE" (three backticks), the word
\* "json", a newline "NL", other text "text", and JSON texts: "GRAPH" is an
\* object with a nodes array and a links array, "NODES" an object with a
\* nodes array only, "OBJECT" an object with neither, "null" the literal.
\* ------------------------------------------------------------------------

ValueTokens == { "GRAPH", "NODES", "OBJECT", "null" }

\* what may precede the body of a response
Prefixes ==
  { << >>, << "FENCE" >>, << "FENCE", "json" >>, << "FENCE", "json", "NL" >>,
    << "FENCE", "NL" >>, << "text", "NL" >>, << "FENCE", "FENCE", "json", "NL" >> }

\* the body: nothing, one JSON text, prose, or two JSON texts
Bodies ==
  { << >>, << "GRAPH" >>, << "NODES" >>, << "OBJECT" >>, << "null" >>, << "text" >>,
    << "GRAPH", "NL", "GRAPH" >> }

\* what may follow the body
Suffixes ==
  { << >>, << "NL" >>, << "FENCE" >>, << "NL", "FENCE" >>,
    << "NL", "FENCE", "NL", "text" >> }

\* what session.prompt() can resolve to
Responses == { pre \o body \o post : pre \in Prefixes, body \in Bodies, post \in Suffixes }

\* outcomes of `await session.prompt(prompt)`: a string, a value that is not a
\* string, or a rejection
Replies ==
  { [type |-> "string", text |-> r] : r \in Responses }
    \cup { [type |-> "undefined", text |-> << >>], [type |-> "rejects", text |-> << >>] }

\* a first replace that removes nothing
RemoveFenceJson_Keep(t, i) == SubSeq(t, i, Len(t))

\* the first replace, of a fence marker followed by json and an optional
\* newline, from token i on
RECURSIVE RemoveFenceJson(_, _)
RemoveFenceJson(t, i) ==
  IF i > Len(t) THEN << >>
  ELSE IF t[i] = "FENCE" /\ i < Len(t) /\ t[i + 1] = "json"
       THEN RemoveFenceJson(t, IF i + 2 <= Len(t) /\ t[i + 2] = "NL" THEN i + 3 ELSE i + 2)
       ELSE << t[i] >> \o RemoveFenceJson(t, i + 1)

\* the second replace, of a fence marker and an optional newline, from
\* token i on
RECURSIVE RemoveFence(_, _)
RemoveFence(t, i) ==
  IF i > Len(t) THEN << >>
  ELSE IF t[i] = "FENCE"
       THEN RemoveFence(t, IF i < Len(t) /\ t[i + 1] = "NL" THEN i + 2 ELSE i + 1)
       ELSE << t[i] >> \o RemoveFence(t, i + 1)

RECURSIVE TrimStart(_)
TrimStart(t) == IF t # << >> /\ Head(t) = "NL" THEN TrimStart(Tail(t)) ELSE t

RECURSIVE TrimEnd(_)
TrimEnd(t) ==
  IF t # << >> /\ t[Len(t)] = "NL" THEN TrimEnd(SubSeq(t, 1, Len(t) - 1)) ELSE t

\* .trim()
Trim(t) == TrimEnd(TrimStart(t))

\* the text handed to JSON.parse
Cleaned(response) == Trim(RemoveFence(RemoveFenceJson(response, 1), 1))

\* JSON.parse: white space around the one JSON text is skipped; anything
\* else is a SyntaxError ("none")
JSONParse(t) ==
  LET content == SelectSeq(t, LAMBDA x : x # "NL")
  IN  IF Len(content) = 1 /\ content[1] \in ValueTokens THEN content[1] ELSE "none"

\* the object returned by the catch block
ParseFailure(reply) ==
  [kind |-> "parseError", json |-> "none", rawResponse |-> reply.text, parsed |-> FALSE]

\* _parseJSONResponse(response): the whole body is inside try/catch;
\* response.replace on a value that is not a string raises a TypeError there
ParseJSONResponse(reply) ==
  LET json == IF reply.type = "string" THEN JSONParse(Cleaned(reply.text)) ELSE "none"
      value == IF json # "none"
               THEN [kind |-> "value", json |-> json, rawResponse |-> << >>, parsed |-> TRUE]
               ELSE ParseFailure(reply)
  IN  [called |-> TRUE, response |-> reply.text, isString |-> reply.type = "string",
       threw |-> FALSE, result |-> value]

\* ------------------------------------------------------------------------
\* Session manager and analysis methods
\* ------------------------------------------------------------------------

ModelStatuses == { "available", "unavailable", "unsupported", "createRejects" }

Methods == { "enhanceKeywords", "analyzeRelationships", "enhanceNLPResults" }

\* the caller's NLP results (or keywords)
NLPInputs == { "nlpA", "nlpB" }

\* _ensureInitialized() without its try/catch
EnsureOutcome_Uncaught(promise, initialized) ==
  IF promise = "rejected" THEN [value |-> FALSE, threw |-> TRUE]
  ELSE [value |-> initialized, threw |-> FALSE]

\* _ensureInitialized() once `await this.initialize()` has settled: the
\* rejection is caught and answered by false
EnsureOutcome(promise, initialized) ==
  IF promise = "rejected" THEN [value |-> FALSE, threw |-> FALSE]
  ELSE [value |-> initialized, threw |-> FALSE]

\* the result returned when _ensureInitialized() is false
FallbackResult(method, arg) ==
  [enhanced |-> FALSE, threw |-> FALSE,
   original |-> IF method = "enhanceNLPResults" THEN arg ELSE "none",
   keywords |-> IF method = "enhanceKeywords" THEN arg ELSE "none",
   payload |-> NoValue, error |-> "none"]

\* the result returned by the catch block of an analysis method
FailureResult(method, arg) ==
  [enhanced |-> FALSE, threw |-> FALSE,
   original |-> IF method = "enhanceNLPResults" THEN arg ELSE "none",
   keywords |-> IF method = "enhanceKeywords" THEN arg ELSE "none",
   payload |-> NoValue, error |-> "message"]

\* the result returned after the response has been parsed
SuccessResult(method, arg, value) ==
  [enhanced |-> TRUE, threw |-> FALSE,
   original |-> IF method = "enhanceNLPResults" THEN arg ELSE "none",
   keywords |-> IF method = "enhanceKeywords" THEN arg ELSE "none",
   payload |-> value, error |-> "none"]

\* the session is active, not being destroyed, and was created with the
\* current system prompt
SessionIsFresh ==
  session = "active" /\ ~destroying /\ sessionPrompt = systemPrompt

\* an analysis method up to its first await: _ensureInitialized() returns
\* true at once when isInitialized, otherwise it waits for initialize(),
\* which starts _doInitialize() unless a promise exists already
BeginCall(method, arg, caller) ==
  /\ call' = [pc |-> IF isInitialized THEN "prompt" ELSE "awaitInit",
              method |-> method, arg |-> arg, caller |-> caller]
  /\ initializationPromise' =
       IF ~isInitialized /\ initializationPromise = "none"
       THEN "pending" ELSE initializationPromise
  /\ callResult' = NoResult
  /\ lastParse' = NoParse
  /\ attempts' = IF ~isInitialized /\ initializationPromise = "none"
                 THEN attempts + 1 ELSE attempts
  /\ lastEnsure' = [called |-> isInitialized, value |-> isInitialized,
                    afterUpdate |-> updated,
                    afterFailure |-> initializationPromise = "rejected",
                    available |-> modelStatus = "available",
                    fresh |-> isInitialized /\ SessionIsFresh]
  /\ updated' = FALSE
  /\ UNCHANGED << createCalls, initReturned, destroying, systemPrompt, sessionPrompt,
                  promptTarget >>

\* no analysis method is running and no caller waits for a result
NoCallPending == call.pc = "idle" \/ (call.pc = "done" /\ call.caller = "direct")

\* enhanceKeywords, analyzeRelationships or enhanceNLPResults is called
AnalysisCall ==
  /\ NoCallPending
  /\ \E method \in Methods, arg \in NLPInputs : BeginCall(method, arg, "direct")
  /\ UNCHANGED << modelStatus, session, isInitialized, graphData, graphInit >>
  /\ UNCHANGED << engineVars, viewVars, hookVars, uiVars >>

\* an initialize() that ignores the cached promise
InitializeStartsAttempt_Always(promise) == TRUE

\* `if (this.initializationPromise) return this.initializationPromise`:
\* initialize() starts _doInitialize() only when no promise is cached
InitializeStartsAttempt(promise) == promise = "none"

\* initialize(), called by the app when it mounts: no promise is cached, so
\* _doInitialize() starts and its promise is cached and returned
Initialize ==
  /\ Len(initReturned) < MaxInitCalls
  /\ InitializeStartsAttempt(initializationPromise)
  /\ initializationPromise' = "pending"
  /\ attempts' = attempts + 1
  /\ initReturned' = Append(initReturned, [attempt |-> attempts', found |-> initializationPromise])
  /\ UNCHANGED << modelStatus, session, isInitialized, call, callResult, lastParse,
                  graphData, graphInit >>
  /\ UNCHANGED << createCalls, destroying, systemPrompt, sessionPrompt, promptTarget,
                  updated, lastEnsure >>
  /\ UNCHANGED << engineVars, viewVars, hookVars, uiVars >>

\* initialize() called again: the cached promise is returned
InitializeAgain ==
  /\ Len(initReturned) < MaxInitCalls
  /\ ~InitializeStartsAttempt(initializationPromise)
  /\ initReturned' = Append(initReturned, [attempt |-> attempts, found |-> initializationPromise])
  /\ UNCHANGED << attempts, createCalls, destroying, systemPrompt, sessionPrompt, promptTarget,
                  updated, lastEnsure >>
  /\ UNCHANGED << aiVars, engineVars, viewVars, hookVars, uiVars >>

\* _doInitialize() runs to its end: availability() and create() succeed, or
\* one of them throws and the promise is rejected
DoInitialize ==
  /\ initializationPromise = "pending"
  /\ IF modelStatus = "available"
     THEN /\ session' = "active"
          /\ sessionPrompt' = systemPrompt
          /\ isInitialized' = TRUE
          /\ initializationPromise' = "resolved"
     ELSE /\ isInitialized' = FALSE
          /\ initializationPromise' = "rejected"
          /\ UNCHANGED << session, sessionPrompt >>
  /\ createCalls' = IF modelStatus \in { "available", "createRejects" }
                    THEN createCalls + 1 ELSE createCalls
  /\ UNCHANGED << modelStatus, call, callResult, lastParse, graphData, graphInit >>
  /\ UNCHANGED << attempts, initReturned, destroying, systemPrompt, promptTarget, updated,
                  lastEnsure >>
  /\ UNCHANGED << engineVars, viewVars, hookVars, uiVars >>

\* _ensureInitialized() returns to the analysis method
EnsureReturn ==
  /\ call.pc = "awaitInit"
  /\ initializationPromise \in { "resolved", "rejected" }
  /\ LET outcome == EnsureOutcome(initializationPromise, isInitialized)
     IN  IF outcome.threw
         THEN /\ call' = [call EXCEPT !.pc = "done"]
              /\ callResult' = [NoResult EXCEPT !.threw = TRUE]
         ELSE IF outcome.value
         THEN /\ call' = [call EXCEPT !.pc = "prompt"]
              /\ UNCHANGED callResult
         ELSE /\ call' = [call EXCEPT !.pc = "done"]
              /\ callResult' = FallbackResult(call.method, call.arg)
  /\ lastEnsure' = [lastEnsure EXCEPT
                      !.called = TRUE,
                      !.value = EnsureOutcome(initializationPromise, isInitialized).value,
                      !.fresh = EnsureOutcome(initializationPromise, isInitialized).value
                                  /\ SessionIsFresh]
  /\ UNCHANGED << modelStatus, session, isInitialized, initializationPromise, lastParse,
                  graphData, graphInit >>
  /\ UNCHANGED << attempts, createCalls, initReturned, destroying, systemPrompt, sessionPrompt,
                  promptTarget, updated >>
  /\ UNCHANGED << engineVars, viewVars, hookVars, uiVars >>

\* session.prompt(prompt) settles and the method returns: a rejection or a
\* missing session ends in the catch block, a response is parsed
PromptSettles(reply) ==
  /\ IF session = "null" \/ reply.type = "rejects"
     THEN /\ callResult' = FailureResult(call.method, call.arg)
          /\ UNCHANGED lastParse
     ELSE /\ lastParse' = ParseJSONResponse(reply)
          /\ callResult' = SuccessResult(call.method, call.arg, lastParse'.result)
  /\ call' = [call EXCEPT !.pc = "done"]
  /\ promptTarget' = IF session = "null" THEN "null"
                     ELSE IF destroying THEN "destroying" ELSE "active"
  /\ UNCHANGED << modelStatus, session, isInitialized, initializationPromise,
                  graphData, graphInit >>
  /\ UNCHANGED << attempts, createCalls, initReturned, destroying, systemPrompt, sessionPrompt,
                  updated, lastEnsure >>
  /\ UNCHANGED << engineVars, viewVars, hookVars, uiVars >>

\* an analysis method calls session.prompt and returns
PromptReturn ==
  /\ call.pc = "prompt"
  /\ \E reply \in Replies : PromptSettles(reply)

\* ------------------------------------------------------------------------
\* The app: processText and the graph view's initializeGraph
\* ------------------------------------------------------------------------

\* `aiResults.enhanced && aiResults.nodeLinkGraph`
ConversionSucceeded(result) ==
  result.enhanced /\ result.payload # NullValue /\ result.payload # NoValue

\* `!rawData || !rawData.nodes || !rawData.links` in processGraphData
InvalidGraphData(data) ==
  data = NullValue \/ data.kind # "value" \/ data.json # "GRAPH"

\* processText up to the model step: clears graphData; with AI enabled and
\* the processor initialized it calls enhanceNLPResults, otherwise it shows
\* the NLP results and graphData stays null
ProcessText ==
  /\ NoCallPending
  /\ graphData' = NullValue
  /\ graphInit' = "none"
  /\ IF isInitialized
     THEN \E arg \in NLPInputs : BeginCall("enhanceNLPResults", arg, "processText")
     ELSE /\ call' = IdleCall
          /\ callResult' = NoResult
          /\ lastParse' = NoParse
          /\ UNCHANGED initializationPromise
          /\ UNCHANGED sessVars
  /\ UNCHANGED << modelStatus, session, isInitialized >>
  /\ UNCHANGED << engineVars, viewVars, hookVars, uiVars >>

\* processText after enhanceNLPResults has returned: displayNodeLinkGraph
\* installs the converted graph, displayFlaskResults leaves graphData alone
DisplayResults ==
  /\ call.pc = "done" /\ call.caller = "processText"
  /\ graphData' = IF ConversionSucceeded(callResult) THEN callResult.payload ELSE graphData
  /\ call' = IdleCall
  /\ callResult' = NoResult
  /\ lastParse' = NoParse
  /\ UNCHANGED << modelStatus, session, isInitialized, initializationPromise, graphInit >>
  /\ UNCHANGED sessVars
  /\ UNCHANGED << engineVars, viewVars, hookVars, uiVars >>

\* the graph view's effect on graphData: initializeGraph() runs for a graphData
\* that is not null, and processGraphData throws on an invalid structure
GraphInitialize ==
  /\ graphInit = "none"
  /\ graphData # NullValue
  /\ graphInit' = IF InvalidGraphData(graphData) THEN "threw" ELSE "ok"
  /\ UNCHANGED << modelStatus, session, isInitialized, initializationPromise,
                  call, callResult, lastParse, graphData >>
  /\ UNCHANGED sessVars
  /\ UNCHANGED << engineVars, viewVars, hookVars, uiVars >>

AIStart ==
  /\ EngineInit
  /\ ViewInit
  /\ HookInit
  /\ \E status \in ModelStatuses : AIInit(status)
  /\ RestInit

AINext ==
  \/ AnalysisCall
  \/ Initialize
  \/ DoInitialize
  \/ EnsureReturn
  \/ PromptReturn
  \/ ProcessText
  \/ DisplayResults
  \/ GraphInitialize

SpecAI == AIStart /\ [][AINext]_vars

\* ------------------------------------------------------------------------
\* The session manager under repeated initialize(), destroy() and
\* updateSystemPrompt() calls
\* ------------------------------------------------------------------------

Prompts == { "configured", "revised" }

\* replies of the model: a graph, prose, or a rejection
SessionReplies ==
  { [type |-> "string", text |-> << "GRAPH" >>], [type |-> "string", text |-> << "text" >>],
    [type |-> "rejects", text |-> << >>] }

\* an analysis method calls session.prompt and returns
PromptReturnSession ==
  /\ call.pc = "prompt"
  /\ \E reply \in SessionReplies : PromptSettles(reply)

\* destroy() with a session: session.destroy() is called and awaited
Destroy ==
  /\ session # "null"
  /\ ~destroying
  /\ destroying' = TRUE
  /\ UNCHANGED << attempts, createCalls, initReturned, systemPrompt, sessionPrompt,
                  promptTarget, updated, lastEnsure >>
  /\ UNCHANGED << aiVars, engineVars, viewVars, hookVars, uiVars >>

\* session.destroy() has resolved: destroy() clears session and isInitialized
DestroyFinish ==
  /\ destroying
  /\ destroying' = FALSE
  /\ session' = "null"
  /\ isInitialized' = FALSE
  /\ UNCHANGED << modelStatus, initializationPromise, call, callResult, lastParse,
                  graphData, graphInit >>
  /\ UNCHANGED << attempts, createCalls, initReturned, systemPrompt, sessionPrompt,
                  promptTarget, updated, lastEnsure >>
  /\ UNCHANGED << engineVars, viewVars, hookVars, uiVars >>

\* updateSystemPrompt(newPrompt): stores the prompt and, with a session,
\* calls destroy() without awaiting it
UpdateSystemPrompt ==
  /\ \E newPrompt \in Prompts : systemPrompt' = newPrompt
  /\ destroying' = (destroying \/ session # "null")
  /\ updated' = (updated \/ session # "null")
  /\ UNCHANGED << attempts, createCalls, initReturned, sessionPrompt, promptTarget, lastEnsure >>
  /\ UNCHANGED << aiVars, engineVars, viewVars, hookVars, uiVars >>

\* the model finishes downloading, or the failure of create() goes away
ModelBecomesAvailable ==
  /\ modelStatus # "available"
  /\ modelStatus' = "available"
  /\ UNCHANGED << session, isInitialized, initializationPromise, call, callResult, lastParse,
                  graphData, graphInit >>
  /\ UNCHANGED sessVars
  /\ UNCHANGED << engineVars, viewVars, hookVars, uiVars >>

SessionNext ==
  \/ AnalysisCall
  \/ Initialize
  \/ InitializeAgain
  \/ DoInitialize
  \/ EnsureReturn
  \/ PromptReturnSession
  \/ Destroy
  \/ DestroyFinish
  \/ UpdateSystemPrompt
  \/ ModelBecomesAvailable

SpecSession == AIStart /\ [][SessionNext]_vars

\* ------------------------------------------------------------------------
\* The D3 graph view (GraphVisualization): initializeGraph with its delay,
\* renderGraph and the simulations it creates
\* ------------------------------------------------------------------------

\* every variable but those of the D3 view
notD3Vars == << engineVars, viewVars, hookVars, aiVars, sessVars, convVars, textVars >>

\* graphData values: an object with nodes and links, or one without
GraphValidity == { TRUE, FALSE }

\* a timer order in which the newest run ends first
NextToInstall_Newest(requests) == Len(requests)

\* the initializeGraph() run whose 300 ms timer fires next: timers of equal
\* delay fire in the order they were set
NextToInstall(requests) == 1

Without(requests, k) == SubSeq(requests, 1, k - 1) \o SubSeq(requests, k + 1, Len(requests))

\* the parent gives the view a graphData that is an object; the effect on
\* graphData calls initializeGraph(), which runs up to its await
D3SetGraphData ==
  /\ d3Mounted
  /\ d3Requested < MaxRequests
  /\ d3Requested' = d3Requested + 1
  /\ \E valid \in GraphValidity :
       /\ d3Requests' = Append(d3Requests, [serial |-> d3Requested', valid |-> valid])
       /\ d3LastValid' = IF valid THEN d3Requested' ELSE d3LastValid
  /\ d3Overlapped' = (d3Overlapped \/ d3Requests # << >>)
  /\ d3Loading' = TRUE
  /\ d3Stabilizing' = FALSE
  /\ d3Steps' = 0
  /\ d3Error' = "none"
  /\ UNCHANGED << d3Mounted, d3Data, d3Sims, d3SimRef, d3TickedAfterTeardown >>
  /\ UNCHANGED notD3Vars

\* the parent sets graphData to null: the effect reports the missing data
D3ClearGraphData ==
  /\ d3Mounted
  /\ d3Requested < MaxRequests
  /\ d3Requested' = d3Requested + 1
  /\ d3Error' = "No graph data available"
  /\ d3Loading' = FALSE
  /\ UNCHANGED << d3Mounted, d3Requests, d3Data, d3Stabilizing, d3Steps, d3Sims, d3SimRef, d3LastValid,
                  d3Overlapped, d3TickedAfterTeardown >>
  /\ UNCHANGED notD3Vars

\* initializeGraph() after its await: processGraphData throws on data
\* without nodes or links; otherwise the data is installed and, in the
\* effect on data and isLoading, renderGraph() creates a simulation
D3Install ==
  /\ d3Requests # << >>
  /\ LET k == NextToInstall(d3Requests)
         request == d3Requests[k]
     IN  /\ d3Requests' = Without(d3Requests, k)
         /\ IF ~request.valid
            THEN UNCHANGED << d3Data, d3Loading, d3Stabilizing, d3Sims, d3SimRef >>
            ELSE IF ~d3Mounted
            THEN /\ d3Stabilizing' = TRUE
                 /\ UNCHANGED << d3Data, d3Loading, d3Sims, d3SimRef >>
            ELSE /\ d3Data' = request.serial
                 /\ d3Loading' = FALSE
                 /\ d3Stabilizing' = TRUE
                 /\ d3Sims' = Append(d3Sims, [running |-> TRUE, ticks |-> 0])
                 /\ d3SimRef' = Len(d3Sims) + 1
  /\ UNCHANGED << d3Mounted, d3Requested, d3Steps, d3Error, d3LastValid, d3Overlapped,
                  d3TickedAfterTeardown >>
  /\ UNCHANGED notD3Vars

\* the timer of a simulation fires: the tick handler moves the drawing and
\* counts; the simulation stops by itself once its alpha has decayed
D3Tick ==
  /\ \E i \in 1..Len(d3Sims) :
       /\ d3Sims[i].running
       /\ d3Sims' = [d3Sims EXCEPT ![i] = [running |-> d3Sims[i].ticks + 1 < MaxSimTicks,
                                           ticks |-> d3Sims[i].ticks + 1]]
  /\ d3Steps' = NextSteps(d3Stabilizing, d3Steps)
  /\ d3Stabilizing' = NextStabilizing(d3Stabilizing, d3Steps')
  /\ d3TickedAfterTeardown' = (d3TickedAfterTeardown \/ ~d3Mounted)
  /\ UNCHANGED << d3Mounted, d3Requested, d3Requests, d3Data, d3Loading, d3Error, d3SimRef,
                  d3LastValid, d3Overlapped >>
  /\ UNCHANGED notD3Vars

\* the view is unmounted: the cleanup stops simulationRef.current
D3Unmount ==
  /\ d3Mounted
  /\ d3Mounted' = FALSE
  /\ d3Sims' = IF d3SimRef = 0 THEN d3Sims
               ELSE [d3Sims EXCEPT ![d3SimRef] = [@ EXCEPT !.running = FALSE]]
  /\ UNCHANGED << d3Requested, d3Requests, d3Data, d3Loading, d3Stabilizing, d3Steps, d3Error,
                  d3SimRef, d3LastValid, d3Overlapped, d3TickedAfterTeardown >>
  /\ UNCHANGED notD3Vars

D3Next ==
  \/ D3SetGraphData
  \/ D3ClearGraphData
  \/ D3Install
  \/ D3Tick
  \/ D3Unmount

SpecD3 == Init /\ [][D3Next]_vars

\* timers that are set fire: the delay of initializeGraph() ends and a
\* running simulation ticks
SpecD3Fair == SpecD3 /\ WF_vars(D3Install) /\ WF_vars(D3Tick)

\* ------------------------------------------------------------------------
\* convertToGraphData: NLP results to nodes and links
\*
\* A text is a sequence of letters; "B" is the upper-case form of "b".
\* ------------------------------------------------------------------------

\* text.toLowerCase()
ToLower(text) == [i \in 1..Len(text) |-> IF text[i] = "B" THEN "b" ELSE text[i]]

\* whole.includes(part)
Includes(whole, part) ==
  \E i \in 0..(Len(whole) - Len(part)) : SubSeq(whole, i + 1, i + Len(part)) = part

\* entity texts and names used in relationships
Names == { << >>, << "a" >>, << "B" >>, << "b" >>, << "a", "B" >>, << "c" >> }

RECURSIVE EntityLists(_)
EntityLists(n) ==
  IF n = 0 THEN { << >> }
  ELSE LET shorter == EntityLists(n - 1)
       IN  shorter \cup { Append(l, name) : l \in shorter, name \in Names }

\* a list holds no relationship or one
RelationshipLists ==
  { << >> } \cup { << [source |-> a, target |-> b] >> : a \in Names, b \in Names }

NLPInputResults ==
  { [entities |-> e, aiRelationships |-> a, relationships |-> r] :
      e \in EntityLists(MaxEntities), a \in RelationshipLists, r \in RelationshipLists }

\* position of key in the map, 0 when absent
RECURSIVE MapIndex(_, _, _)
MapIndex(map, key, i) ==
  IF i > Len(map) THEN 0
  ELSE IF map[i].key = key THEN i ELSE MapIndex(map, key, i + 1)

\* nodeMap.set(key, id): a Map keeps the position of a key it already holds
MapSet(map, key, id) ==
  LET i == MapIndex(map, key, 1)
  IN  IF i = 0 THEN Append(map, [key |-> key, id |-> id])
      ELSE [map EXCEPT ![i] = [key |-> key, id |-> id]]

\* the nodes pushed for the entities; the node of entity i has id i
EntityNodes(entities) ==
  [i \in 1..Len(entities) |-> [id |-> i, label |-> entities[i]]]

\* nodeMap after the first i entities
RECURSIVE EntityMap(_, _)
EntityMap(entities, i) ==
  IF i = 0 THEN << >>
  ELSE MapSet(EntityMap(entities, i - 1), ToLower(entities[i]), i)

\* the first entry whose key includes the text or is included in it
RECURSIVE PartialMatch(_, _, _)
PartialMatch(text, map, i) ==
  IF i > Len(map) THEN 0
  ELSE IF Includes(map[i].key, ToLower(text)) \/ Includes(ToLower(text), map[i].key)
       THEN map[i].id
       ELSE PartialMatch(text, map, i + 1)

\* a lookup that answers with the first node whatever the text
findNodeId_FirstNode(text, map) == IF map = << >> THEN 0 ELSE map[1].id

\* findNodeId(text, nodeMap): exact match first, then partial matches; 0 for null
findNodeId(text, map) ==
  LET i == MapIndex(map, ToLower(text), 1)
  IN  IF i # 0 THEN map[i].id ELSE PartialMatch(text, map, 1)

\* the link pushed for a relationship; `names` keeps what the relationship said
LinkFor(rel, sourceId, targetId, aiDetected) ==
  [source |-> sourceId, target |-> targetId, aiDetected |-> aiDetected,
   names |-> << rel.source, rel.target >>]

\* links after the AI-enhanced relationships from i on
RECURSIVE AILinks(_, _, _, _)
AILinks(ls, rels, map, i) ==
  IF i > Len(rels) THEN ls
  ELSE LET sourceId == findNodeId(rels[i].source, map)
           targetId == findNodeId(rels[i].target, map)
       IN  AILinks(IF sourceId # 0 /\ targetId # 0
                   THEN Append(ls, LinkFor(rels[i], sourceId, targetId, TRUE)) ELSE ls,
                   rels, map, i + 1)

\* `links.some(...)`: a link between the two nodes exists in either direction
LinkExists(ls, sourceId, targetId) ==
  \E k \in 1..Len(ls) :
    \/ ls[k].source = sourceId /\ ls[k].target = targetId
    \/ ls[k].source = targetId /\ ls[k].target = sourceId

\* links after the basic relationships from i on
RECURSIVE BasicLinks(_, _, _, _)
BasicLinks(ls, rels, map, i) ==
  IF i > Len(rels) THEN ls
  ELSE LET sourceId == findNodeId(rels[i].source, map)
           targetId == findNodeId(rels[i].target, map)
       IN  BasicLinks(IF sourceId # 0 /\ targetId # 0 /\ ~LinkExists(ls, sourceId, targetId)
                      THEN Append(ls, LinkFor(rels[i], sourceId, targetId, FALSE)) ELSE ls,
                      rels, map, i + 1)

\* convertToGraphData(nlpResults)
convertToGraphData(input) ==
  LET map == EntityMap(input.entities, Len(input.entities))
      aiLinks == AILinks(<< >>, input.aiRelationships, map, 1)
  IN  [called |-> TRUE,
       nodes |-> EntityNodes(input.entities),
       links |-> BasicLinks(aiLinks, input.relationships, map, 1)]

\* the caller's NLP results arrive
ReceiveNLPResults ==
  /\ nlpResults = NoNLPResults /\ ~converted.called
  /\ \E input \in NLPInputResults : input # NoNLPResults /\ nlpResults' = input
  /\ UNCHANGED converted
  /\ UNCHANGED << engineVars, viewVars, hookVars, aiVars, sessVars, d3Vars, textVars >>

\* convertToGraphData is applied to them
Convert ==
  /\ ~converted.called
  /\ converted' = convertToGraphData(nlpResults)
  /\ UNCHANGED nlpResults
  /\ UNCHANGED << engineVars, viewVars, hookVars, aiVars, sessVars, d3Vars, textVars >>

ConvertNext == ReceiveNLPResults \/ Convert

SpecConvert == Init /\ [][ConvertNext]_vars

\* ------------------------------------------------------------------------
\* processText of the text processor: backend request, model enhancement,
\* display, and the reset of isProcessing
\* ------------------------------------------------------------------------

notTextVars == << engineVars, viewVars, hookVars, aiVars, sessVars, d3Vars, convVars >>

\* the text in the input box
InputTexts == { "", "text" }

\* fetch rejects, answers with an error status, answers with a body that is
\* not JSON, or answers with NLP results
BackendOutcomes == { "rejects", "notOk", "badJson", "ok" }

\* enhanceNLPResults resolves enhanced, resolves not enhanced, or throws
ModelOutcomes == { "enhanced", "notEnhanced", "throws" }

\* a catch block that returns without resetting isProcessing
AfterFailure_Abandons == "idle"

\* where processText continues after an exception inside its try block: the
\* catch block logs and the finally block runs
AfterFailure == "finally"

\* processText is called: with an empty text it returns at once, otherwise
\* it sets isProcessing and sends the backend request; the button is
\* disabled while isProcessing
ProcessTextStart ==
  /\ textPc = "idle" /\ ~isProcessing
  /\ textRuns < MaxRuns
  /\ \E inputText \in InputTexts :
       IF inputText = ""
       THEN UNCHANGED << isProcessing, textPc, textLog, textRuns >>
       ELSE /\ isProcessing' = TRUE
            /\ textPc' = "fetch"
            /\ textLog' = NoTextLog
            /\ textRuns' = textRuns + 1
  /\ UNCHANGED notTextVars

\* the backend request settles; with results, the model is asked when AI is
\* enabled and the processor is initialized
BackendSettles ==
  /\ textPc = "fetch"
  /\ \E outcome \in BackendOutcomes, useModel \in BOOLEAN :
       /\ textLog' = [textLog EXCEPT !.backend = outcome]
       /\ textPc' = IF outcome # "ok" THEN AfterFailure
                    ELSE IF useModel THEN "model" ELSE "display"
  /\ UNCHANGED << isProcessing, textRuns >>
  /\ UNCHANGED notTextVars

\* enhanceNLPResults settles; its exception is caught by the inner catch
ModelSettles ==
  /\ textPc = "model"
  /\ \E outcome \in ModelOutcomes : textLog' = [textLog EXCEPT !.model = outcome]
  /\ textPc' = "display"
  /\ UNCHANGED << isProcessing, textRuns >>
  /\ UNCHANGED notTextVars

\* the results are converted and shown, which may throw on results of an
\* unexpected shape
DisplaySettles ==
  /\ textPc = "display"
  /\ \E outcome \in { "shown", "throws" } :
       /\ textLog' = [textLog EXCEPT !.display = outcome]
       /\ textPc' = IF outcome = "throws" THEN AfterFailure ELSE "finally"
  /\ UNCHANGED << isProcessing, textRuns >>
  /\ UNCHANGED notTextVars

\* the finally block: setIsProcessing(false), at once or from a 1000 ms timer
FinallyBlock ==
  /\ textPc = "finally"
  /\ \E delayed \in BOOLEAN :
       IF delayed
       THEN /\ textPc' = "timer"
            /\ UNCHANGED << isProcessing, textLog >>
       ELSE /\ textPc' = "idle"
            /\ isProcessing' = FALSE
            /\ textLog' = [textLog EXCEPT !.reset = "finally"]
  /\ UNCHANGED textRuns
  /\ UNCHANGED notTextVars

\* the timer set by the finally block fires
ResetTimerFires ==
  /\ textPc = "timer"
  /\ textPc' = "idle"
  /\ isProcessing' = FALSE
  /\ textLog' = [textLog EXCEPT !.reset = "timer"]
  /\ UNCHANGED textRuns
  /\ UNCHANGED notTextVars

TextNext ==
  \/ ProcessTextStart
  \/ BackendSettles
  \/ ModelSettles
  \/ DisplaySettles
  \/ FinallyBlock
  \/ ResetTimerFires

SpecText == Init /\ [][TextNext]_vars

\* every awaited promise settles, the function runs on, and timers fire
SpecTextFair ==
  /\ SpecText
  /\ WF_vars(BackendSettles)
  /\ WF_vars(ModelSettles)
  /\ WF_vars(DisplaySettles)
  /\ WF_vars(FinallyBlock)
  /\ WF_vars(ResetTimerFires)

\* ------------------------------------------------------------------------
\* Properties
\* ------------------------------------------------------------------------

\* some update() call has run the force computation on the current engine
Updated == constructed /\ returned.called /\ ~UpdateIsNoOp(nodes, dimensions)

WithinPadding(node, dims) ==
  /\ nodePadding * Scale <= node.x /\ node.x <= dims.width - nodePadding * Scale
  /\ nodePadding * Scale <= node.y /\ node.y <= dims.height - nodePadding * Scale

\* C1 as stated: for any non-zero width and height, after every update()
\* every node lies in [nodePadding, dimension - nodePadding] on both axes.
C1_WithinPaddingAnyDimensions ==
  (Updated /\ dimensions.width # 0 /\ dimensions.height # 0)
    => \A i \in 1..Len(nodes) : WithinPadding(nodes[i], dimensions)

\* C1 amended: when width and height are at least 2 * nodePadding, after every
\* update() every node lies in [nodePadding, dimension - nodePadding] on both
\* axes; on an axis whose dimension is non-zero but smaller than
\* 2 * nodePadding every node sits at nodePadding.
C1_WithinPadding ==
  Updated =>
    \A i \in 1..Len(nodes) :
      /\ IF dimensions.width >= 2 * nodePadding * Scale
         THEN nodePadding * Scale <= nodes[i].x
              /\ nodes[i].x <= dimensions.width - nodePadding * Scale
         ELSE nodes[i].x = nodePadding * Scale
      /\ IF dimensions.height >= 2 * nodePadding * Scale
         THEN nodePadding * Scale <= nodes[i].y
              /\ nodes[i].y <= dimensions.height - nodePadding * Scale
         ELSE nodes[i].y = nodePadding * Scale

\* a node that started right of the container has been clamped to the
\* upper bound and stayed there over several ticks
C1_Witness ==
  /\ Updated /\ ticks >= 3
  /\ dimensions = Dims(400, 400)
  /\ \E i \in 1..Len(nodes) :
       nodes[i].id = "b" /\ nodes[i].x = dimensions.width - nodePadding * Scale
                         /\ nodes[i].vx > 0

\* C2: isStabilized() is false right after startStabilization(); it turns
\* true only on the update() call that brings the tick counter to
\* maxStabilizationSteps and always on that call, whatever the positions;
\* once true it stays true under update() and turns false only by a
\* startStabilization() call.
C2_StabilizedExactlyAtMax ==
  [][ /\ (lastCall' = "start" /\ lastCall # "start") => ~isStabilized'
      /\ (~isStabilized /\ isStabilized')
           => /\ ticks' = ticks + 1
              /\ stabilizationSteps = maxStabilizationSteps - 1
              /\ stabilizationSteps' = maxStabilizationSteps
      /\ (~isStabilized /\ ticks' = ticks + 1
            /\ stabilizationSteps' = maxStabilizationSteps) => isStabilized'
      /\ (~isStabilized /\ ticks' = ticks + 1
            /\ stabilizationSteps' < maxStabilizationSteps) => ~isStabilized'
      /\ (isStabilized /\ ticks' = ticks + 1) => isStabilized'
      /\ (isStabilized /\ ~isStabilized') => (lastCall' = "start" /\ ticks' = ticks)
    ]_vars

\* a run has finished and a later update() has been made
C2_Witness ==
  /\ isStabilized /\ stabilizationSteps = maxStabilizationSteps
  /\ lastCall = "update" /\ sinceStart > maxStabilizationSteps

\* a / b >= c / d for fractions with positive denominators
FractionGeq(p, q) == p.num * q.den >= q.num * p.den

\* C3: within a run getProgress() never decreases from one update() to the
\* next, is below 1 while isStabilized() is false, and is exactly 1 in the
\* state in which isStabilized() first returns true.
C3_ProgressMonotone ==
  [][ /\ ticks' = ticks + 1 => FractionGeq(getProgress', getProgress)
      /\ ~isStabilized' => getProgress'.num < getProgress'.den
      /\ (~isStabilized /\ isStabilized') => getProgress'.num = getProgress'.den
    ]_vars

\* a run that is half way
C3_Witness ==
  /\ ~isStabilized /\ lastCall = "update"
  /\ 2 * getProgress.num = getProgress.den

\* C4 as stated: while the running flag is true every update() call
\* increases the tick counter by exactly 1.
C4_EveryUpdateCounts ==
  [][ (isStabilizing /\ ticks' = ticks + 1)
        => stabilizationSteps' = stabilizationSteps + 1 ]_vars

\* C4 amended: while the running flag is true, the node set is non-empty and
\* width and height are non-zero, every update() call increases the tick
\* counter by exactly 1 from 0 at startStabilization(), so the run ends on
\* update() call number maxStabilizationSteps after the start and not before.
C4_RunEndsAfterMaxUpdates ==
  [][ /\ (isStabilizing /\ ticks' = ticks + 1
            /\ Len(nodes) # 0 /\ dimensions.width # 0 /\ dimensions.height # 0)
           => /\ stabilizationSteps' = stabilizationSteps + 1
              /\ stabilizationSteps = sinceStart
              /\ isStabilizing' = (sinceStart' < maxStabilizationSteps)
      /\ (lastCall' = "start" /\ lastCall # "start") => stabilizationSteps' = 0
    ]_vars

\* a run has just ended on its last update()
C4_Witness ==
  /\ ~isStabilizing /\ lastCall = "update"
  /\ sinceStart = maxStabilizationSteps
  /\ stabilizationSteps = maxStabilizationSteps
  /\ Len(nodes) > 0

Finished == ~isStabilizing /\ stabilizationSteps = maxStabilizationSteps

Positions(ns) == [i \in 1..Len(ns) |-> << ns[i].x, ns[i].y >>]

\* C5 as stated: once the counter has reached maxStabilizationSteps and the
\* running flag is false, further update() calls change no node position.
C5_NoMoveAfterFinish ==
  [][ (Finished /\ ticks' = ticks + 1) => Positions(nodes') = Positions(nodes) ]_vars

\* C5 amended: once the counter has reached maxStabilizationSteps and the
\* running flag is false, further update() calls leave the tick counter and
\* the running flag as they are until startStabilization() is called, but
\* they still run the force and clamping step, so nodes may keep moving.
C5_OnlyBookkeepingStops ==
  [][ (Finished /\ ticks' = ticks + 1)
        => /\ stabilizationSteps' = stabilizationSteps
           /\ ~isStabilizing'
           /\ \A i \in 1..Len(nodes) :
                WithinPadding(nodes[i], dimensions) => WithinPadding(nodes'[i], dimensions)
    ]_vars

\* after the run has finished an update() has moved a node and the next
\* one will move it again
C5_Witness ==
  /\ Finished /\ lastCall = "update" /\ sinceStart > maxStabilizationSteps
  /\ \E i \in 1..Len(nodes) :
       /\ nodes[i].vy # 0
       /\ nodePadding * Scale < nodes[i].y
       /\ nodes[i].y < dimensions.height - nodePadding * Scale
  /\ Positions(UpdateNodes(nodes, links, dimensions)) # Positions(nodes)

\* C6: with an empty node set or a zero width or height, update() throws
\* nothing, returns the node array unchanged and changes neither the nodes
\* nor the tick counter nor the running flag.
C6_NoOpUpdate ==
  [][ (constructed /\ ticks' = ticks + 1
         /\ (Len(nodes) = 0 \/ dimensions.width = 0 \/ dimensions.height = 0))
        => /\ nodes' = nodes
           /\ returned' = [called |-> TRUE, value |-> nodes]
           /\ stabilizationSteps' = stabilizationSteps
           /\ isStabilizing' = isStabilizing
           /\ threw' = threw /\ ~threw'
           /\ ~nan'
    ]_vars

\* update() has returned the untouched nodes of a zero-height container
\* during a run
C6_Witness ==
  /\ returned.called /\ lastCall = "update" /\ isStabilizing
  /\ dimensions.height = 0 /\ dimensions.width # 0
  /\ Len(nodes) = 2 /\ returned.value = nodes
  /\ sinceStart >= 2 /\ stabilizationSteps = 0

\* exactly two nodes at the same position with zero velocity, and no links
CoincidentPairAtRest ==
  /\ Len(nodes) = 2 /\ Len(links) = 0
  /\ nodes[1].x = nodes[2].x /\ nodes[1].y = nodes[2].y
  /\ \A i \in 1..2 : nodes[i].vx = 0 /\ nodes[i].vy = 0

Dangling(link, ns) == Find(ns, link.source) = 0 \/ Find(ns, link.target) = 0

\* C9: the link set the engine built by the graph view iterates over never
\* contains a link whose source or target is not the id of a node.
C9_NoDanglingLinkInEngine ==
  engine = "view" => \A j \in 1..Len(links) : ~Dangling(links[j], nodes)

ValidLinks(ls, ns) == SelectSeq(ls, LAMBDA l : ~Dangling(l, ns))

\* C10: a link with a missing endpoint never causes an exception: update()
\* computes the same nodes as without that link, and rendering skips exactly
\* the links with a missing endpoint while drawing every other link and
\* every node.
C10_DanglingLinkHarmless ==
  constructed =>
    /\ ~threw
    /\ ~UpdateThrows(nodes, links)
    /\ UpdateNodes(nodes, links, dimensions)
         = UpdateNodes(nodes, ValidLinks(links, nodes), dimensions)
    /\ ~RenderThrows(links, nodes)
    /\ \A j \in 1..Len(links) :
         IF Dangling(links[j], nodes)
         THEN RenderLinks(links, nodes)[j].kind = "null"
         ELSE /\ RenderLinks(links, nodes)[j].kind = "path"
              /\ RenderLinks(links, nodes)[j].x1 = nodes[Find(nodes, links[j].source)].x
              /\ RenderLinks(links, nodes)[j].x2 = nodes[Find(nodes, links[j].target)].x
    /\ Len(RenderNodes(nodes)) = Len(nodes)
    /\ \A i \in 1..Len(nodes) : RenderNodes(nodes)[i].key = nodes[i].id

\* the engine has ticked over a link with a missing endpoint next to a
\* valid link that is pulling its endpoints together
C10_Witness ==
  /\ constructed /\ ~threw /\ lastCall = "update" /\ sinceStart >= 2
  /\ \E j \in 1..Len(links) : Dangling(links[j], nodes)
  /\ \E j \in 1..Len(links) : ~Dangling(links[j], nodes)
  /\ \E i \in 1..Len(nodes) : nodes[i].vx # 0

\* sign of the component of the link's force on node i along the direction
\* to the other node: 1 toward it, -1 away from it, 0 when there is no force
LinkPull(ns, ls, i) ==
  LET f == Attraction(ns[i], ls[1], ns)
      o == ns[3 - i]
  IN  [fx |-> f.fx, fy |-> f.fy,
       toward |-> IF f.fx = 0 /\ f.fy = 0 THEN 0
                  ELSE IF /\ (f.fx > 0) = (o.x - ns[i].x > 0) \/ f.fx = 0
                          /\ (f.fy > 0) = (o.y - ns[i].y > 0) \/ f.fy = 0
                       THEN 1 ELSE -1]

\* the attraction never pushes the pair apart and vanishes at or below
\* idealDistance
AttractionNeverSeparates(ns, ls) ==
  (Len(ns) = 2 /\ Len(ls) = 1) =>
    \A i \in 1..2 :
      /\ LinkPull(ns, ls, i).toward >= 0
      /\ PairDistance(ns) <= idealDistance * Scale
           => (LinkPull(ns, ls, i).fx = 0 /\ LinkPull(ns, ls, i).fy = 0)

OtherFields(node) == [node EXCEPT !.x = 0, !.y = 0, !.vx = 0, !.vy = 0]

\* C11: update() changes only the x, y, vx and vy fields of nodes: the link
\* list, the number and order of nodes, every node's id and other fields,
\* and the dimensions are the same after any update() call as before it.
C11_UpdateFrame ==
  [][ ticks' = ticks + 1
        => /\ links' = links
           /\ dimensions' = dimensions
           /\ Len(nodes') = Len(nodes)
           /\ \A i \in 1..Len(nodes) : OtherFields(nodes'[i]) = OtherFields(nodes[i])
    ]_vars

\* update() has moved the nodes of a graph with links several times
C11_Witness ==
  /\ lastCall = "update" /\ sinceStart >= 3 /\ Len(links) = 2 /\ Len(nodes) = 3
  /\ \A i \in 1..Len(nodes) : nodes[i].label = nodes[i].id
  /\ \E i \in 1..Len(nodes) : nodes[i].vx # 0 /\ nodes[i].vy # 0

\* C12: in every state reachable by construction, startStabilization() and
\* update() calls, 0 <= tick counter <= maxStabilizationSteps, so
\* getProgress() is a value in [0, 1].
C12_CounterBounded ==
  constructed =>
    /\ 0 <= stabilizationSteps /\ stabilizationSteps <= maxStabilizationSteps
    /\ 0 <= getProgress.num /\ getProgress.num <= getProgress.den /\ getProgress.den > 0

\* the counter is at its maximum and three more update() calls were made
C12_Witness ==
  /\ constructed /\ lastCall = "update"
  /\ stabilizationSteps = maxStabilizationSteps
  /\ sinceStart = maxStabilizationSteps + 3
  /\ getProgress.num = getProgress.den

\* the node array in another order
Permuted(ns, p) == [k \in 1..Len(ns) |-> ns[p[k]]]

\* the last place of a number of magnitude m that is kept
RECURSIVE UnitOf(_, _)
UnitOf(m, unit) == IF m \div unit < 2 ^ Precision THEN unit ELSE UnitOf(m, 2 * unit)

RECURSIVE SumAbsRepulsion(_, _, _)
SumAbsRepulsion(node, ns, i) ==
  IF i > Len(ns) THEN 0
  ELSE Abs(Repulsion(node, ns[i]).fx) + Abs(Repulsion(node, ns[i]).fy)
         + SumAbsRepulsion(node, ns, i + 1)

RECURSIVE SumAbsAttraction(_, _, _, _)
SumAbsAttraction(node, ls, ns, i) ==
  IF i > Len(ls) THEN 0
  ELSE Abs(Attraction(node, ls[i], ns).fx) + Abs(Attraction(node, ls[i], ns).fy)
         + SumAbsAttraction(node, ls, ns, i + 1)

\* largest difference that rounding of the running force sums of `node` can
\* make: every addition loses less than one unit of the last place kept
RoundingSlack(node, ns, ls) ==
  2 * (Len(ns) + Len(ls))
    * UnitOf(SumAbsRepulsion(node, ns, 1) + SumAbsAttraction(node, ls, ns, 1), 1) + 1

\* update() on the reordered node array gives every node the state it gets
\* in the original order: exactly, or up to the rounding slack
SameUnderReordering(ns, ls, dims, exact) ==
  \A a \in {UpdateNodes(ns, ls, dims)} :
    \A p \in Permutations(1..Len(ns)) :
      \A b \in {UpdateNodes(Permuted(ns, p), ls, dims)} :
        IF exact THEN b = Permuted(a, p)
        ELSE \A k \in 1..Len(ns) :
               \A slack \in {RoundingSlack(ns[p[k]], ns, ls)} :
                 /\ OtherFields(b[k]) = OtherFields(a[p[k]])
                 /\ Abs(b[k].vx - a[p[k]].vx) <= slack
                 /\ Abs(b[k].vy - a[p[k]].vy) <= slack
                 /\ Abs(b[k].x - a[p[k]].x) <= slack
                 /\ Abs(b[k].y - a[p[k]].y) <= slack

\* an update() call that runs the force computation
ForceStep == ticks' = ticks + 1 /\ ~UpdateIsNoOp(nodes, dimensions) /\ ~threw'

\* C19 as stated: update() computes every node's new state only from the
\* state all nodes had at the start of the tick, and reordering the node
\* array does not change any node's resulting position or velocity.
C19_OrderIndependent ==
  [][ ForceStep
        => /\ \A i \in 1..Len(nodes) :
                nodes'[i] = NewNode(nodes[i], nodes, links, dimensions)
           /\ SameUnderReordering(nodes, links, dimensions, TRUE)
    ]_vars

\* C19 amended: update() computes every node's new state only from the
\* state all nodes had at the start of the tick.  With at most three nodes
\* reordering the node array changes no resulting position or velocity; with
\* more nodes the repulsion terms are added in array order and a reordering
\* changes a result by no more than the rounding of the force sums.
C19_SynchronousUpdate ==
  [][ ForceStep
        => /\ \A i \in 1..Len(nodes) :
                nodes'[i] = NewNode(nodes[i], nodes, links, dimensions)
           /\ SameUnderReordering(nodes, links, dimensions, Len(nodes) <= 3)
    ]_vars

\* four nodes close together have been updated once: the three repulsion
\* terms on the first node nearly cancel, the other nodes are thrown apart
C19_Witness ==
  /\ lastCall = "update" /\ sinceStart = 1 /\ ticks = 1 /\ ~threw
  /\ Len(nodes) = 4
  /\ nodes[1].id = "p" /\ Abs(nodes[1].vx) <= 2
  /\ \A i \in 2..4 : Abs(nodes[i].vx) > 50 * Scale

\* the link list without its j-th link
WithoutLink(ls, j) == SubSeq(ls, 1, j - 1) \o SubSeq(ls, j + 1, Len(ls))

\* distance between the endpoints of a link whose endpoints both exist
LinkLength(link, ns) ==
  Distance(ns[Find(ns, link.target)].x - ns[Find(ns, link.source)].x,
           ns[Find(ns, link.target)].y - ns[Find(ns, link.source)].y)

\* C20: for a linked pair whose distance at the start of a tick is at most
\* idealDistance, the link adds no force in that tick: each endpoint's new
\* velocity and position are what update() would produce without that link.
C20_NoForceWithinIdeal ==
  [][ ForceStep
        => \A j \in 1..Len(links) :
             (~Dangling(links[j], nodes)
                /\ LinkLength(links[j], nodes) <= idealDistance * Scale)
               => LET without == UpdateNodes(nodes, WithoutLink(links, j), dimensions)
                      s == Find(nodes, links[j].source)
                      t == Find(nodes, links[j].target)
                  IN  nodes'[s] = without[s] /\ nodes'[t] = without[t]
    ]_vars

\* after several ticks two linked pairs are well within idealDistance of each
\* other and their nodes are moving slowly, pushed by the repulsion alone
C20_Witness ==
  /\ lastCall = "update" /\ sinceStart >= 3 /\ ~threw
  /\ Len(nodes) = 3 /\ Len(links) = 2
  /\ \A j \in 1..Len(links) :
       /\ ~Dangling(links[j], nodes)
       /\ LinkLength(links[j], nodes) > 0
       /\ LinkLength(links[j], nodes) <= (idealDistance - 20) * Scale
  /\ \A i \in 1..Len(nodes) : Abs(nodes[i].vx) < 5 * Scale /\ Abs(nodes[i].vy) < 5 * Scale
  /\ \E i \in 1..Len(nodes) : nodes[i].vx # 0

\* C13: a resize to a new non-zero width or height starts a fresh layout run
\* (tick counter 0, running flag true) over the same nodes and the same
\* links, with the node positions translated so that the graph is centred in
\* the new dimensions; no position is generated anew.
C13_ResizeTranslatesLayout ==
  [][ (engine = "view" /\ dimensions' # dimensions)
        => /\ stabilizationSteps' = 0 /\ isStabilizing'
           /\ links' = links
           /\ Len(nodes') = Len(nodes)
           /\ \A i \in 1..Len(nodes) : nodes'[i].id = nodes[i].id
           /\ \A i, j \in 1..Len(nodes) :
                /\ nodes'[i].x - nodes[i].x = nodes'[j].x - nodes[j].x
                /\ nodes'[i].y - nodes[i].y = nodes'[j].y - nodes[j].y
           /\ Abs(TDiv(SumX(nodes', 1), Len(nodes')) - TDiv(dimensions'.width, 2)) <= 1
           /\ Abs(TDiv(SumY(nodes', 1), Len(nodes')) - TDiv(dimensions'.height, 2)) <= 1
    ]_vars

ViewIds == {nodes[i].id : i \in 1..Len(nodes)}

\* C14: at any time at most one node id is hovered and at most one is
\* selected; a hover event sets the hovered id to the given id or to none; a
\* click on a node selects it if it was not the selected node, replacing any
\* other selection, and clears the selection if it was.
C14_HoverAndToggle ==
  /\ [](hoveredNode \in ViewIds \cup {"none"} /\ selectedNode \in ViewIds \cup {"none"})
  /\ [][ /\ (event'.kind = "hover" /\ (event' # event \/ hoveredNode' # hoveredNode))
              => (hoveredNode' = event'.id /\ selectedNode' = selectedNode)
         /\ (event'.kind = "click" /\ (event' # event \/ selectedNode' # selectedNode))
              => /\ hoveredNode' = hoveredNode
                 /\ event'.id # "none"
                 /\ selectedNode = event'.id => selectedNode' = "none"
                 /\ selectedNode # event'.id => selectedNode' = event'.id
         /\ (event' = event) => (hoveredNode' = hoveredNode)
         /\ (selectedNode' # selectedNode)
              => (event'.kind = "click" \/ (event'.kind = "close" /\ selectedNode' = "none"))
       ]_vars

\* the selected node has been clicked again while another node is hovered
C14_Witness ==
  /\ engine = "view"
  /\ event = [kind |-> "click", id |-> "x"]
  /\ selectedNode = "none"
  /\ hoveredNode = "y"

\* C18: in the hook-based view, whenever a new layout run is started, also
\* while a previous run is still ticking, the tick counter is 0 at the moment
\* the new node set is installed and the running flag is set, so that the new
\* node set receives exactly maxStabilizationSteps ticks before
\* stabilization is reported complete.
C18_NewRunStartsAtZero ==
  [][ /\ (hookInstalled' = hookInstalled + 1) => (hookSteps' = 0 /\ hookStabilizing')
      /\ (hookStabilizing /\ ~hookStabilizing') => hookReceived' = maxStabilizationSteps
    ]_vars

\* C15: when the language model returns malformed output, the graph data
\* installed for the graph view is an empty graph or the previously shown
\* valid graph: an object lacking nodes or links is never passed to graph
\* initialization and no exception is raised there.
C15_MalformedOutputKeepsValidGraph ==
  /\ graphData = NullValue \/ ~InvalidGraphData(graphData)
  /\ graphInit # "threw"

\* the fence markers of a response, found in one pass over it: a fence
\* followed by json, and a fence alone, each with the newline that follows it
RECURSIVE WithoutFenceMarkers(_, _)
WithoutFenceMarkers(t, i) ==
  IF i > Len(t) THEN << >>
  ELSE IF t[i] = "FENCE"
       THEN LET j == IF i < Len(t) /\ t[i + 1] = "json" THEN i + 2 ELSE i + 1
            IN  WithoutFenceMarkers(t, IF j <= Len(t) /\ t[j] = "NL" THEN j + 1 ELSE j)
       ELSE << t[i] >> \o WithoutFenceMarkers(t, i + 1)

\* C16: _parseJSONResponse never throws: it removes the code-fence markers,
\* trims, and returns the parsed JSON value when the remainder is valid
\* JSON; otherwise it returns the object {error, rawResponse, parsed: false}
\* whose rawResponse is the input.
C16_ParseNeverThrows ==
  lastParse.called =>
    /\ ~lastParse.threw
    /\ LET remainder == Trim(WithoutFenceMarkers(lastParse.response, 1))
           json == JSONParse(remainder)
       IN  IF lastParse.isString /\ json # "none"
           THEN lastParse.result =
                  [kind |-> "value", json |-> json, rawResponse |-> << >>, parsed |-> TRUE]
           ELSE /\ lastParse.result.kind = "parseError"
                /\ lastParse.result.parsed = FALSE
                /\ lastParse.result.rawResponse = lastParse.response

\* a graph inside a json fence has been parsed
C16_Witness ==
  /\ lastParse.called
  /\ lastParse.response = << "FENCE", "json", "NL", "GRAPH", "NL", "FENCE" >>
  /\ lastParse.result.json = "GRAPH"
  /\ call.pc = "done" /\ callResult.enhanced

\* C17: if the language model is unsupported or session initialization
\* fails, enhanceKeywords, analyzeRelationships and enhanceNLPResults each
\* resolve without throwing to a result with enhanced = false, and
\* enhanceNLPResults returns the caller's NLP results in `original`.
C17_FallbackWithoutModel ==
  (call.pc = "done" /\ modelStatus # "available")
    => /\ ~callResult.threw
       /\ callResult.enhanced = FALSE
       /\ callResult.payload = NoValue
       /\ call.method = "enhanceNLPResults" => callResult.original = call.arg
       /\ session = "null" /\ ~isInitialized

\* enhanceNLPResults has returned the fallback after a failed initialization
C17_Witness ==
  /\ call.pc = "done" /\ call.method = "enhanceNLPResults" /\ call.arg = "nlpB"
  /\ modelStatus = "createRejects"
  /\ initializationPromise = "rejected"
  /\ callResult = FallbackResult("enhanceNLPResults", "nlpB")

\* C22: in every reachable state of ForceSimulation, isStabilized() is false
\* exactly when a run has been started and the tick counter is below
\* maxStabilizationSteps; an engine on which startStabilization() has never
\* been called reports isStabilized() = true while getProgress() = 0.
C22_StabilizedUnlessRunInProgress ==
  constructed =>
    /\ (~isStabilized) <=> (runStarted /\ stabilizationSteps < maxStabilizationSteps)
    /\ ~runStarted => (isStabilized /\ getProgress.num = 0)

\* an engine that was ticked without ever being started
C22_Witness ==
  /\ engine = "new" /\ ~runStarted
  /\ lastCall = "update" /\ ticks >= 2 /\ ~threw
  /\ isStabilized /\ getProgress.num = 0

\* the simulations whose timer is running
RunningSims == { i \in 1..Len(d3Sims) : d3Sims[i].running }

\* C21: for each graph view at most one tick source is active at any time:
\* starting a new layout run or tearing the view down stops the previous
\* tick source, and after teardown no further tick runs.
C21_SingleTickSource ==
  /\ Cardinality(RunningSims) <= 1
  /\ ~d3Mounted => RunningSims = {}
  /\ ~d3TickedAfterTeardown

C24_LoadingEnds == (d3Mounted /\ d3Loading) ~> (~d3Mounted \/ ~d3Loading)

C26_ReinitializedOnNextUse ==
  (lastEnsure.called /\ lastEnsure.afterUpdate) => (lastEnsure.value /\ lastEnsure.fresh)

\* C27: after an initialization attempt fails, a later _ensureInitialized()
\* call starts a new attempt, which succeeds once the model is available.
C27_RetryAfterFailure ==
  (lastEnsure.called /\ lastEnsure.afterFailure /\ lastEnsure.available) => lastEnsure.value

\* C28: under any interleaving of analysis calls with destroy() and
\* updateSystemPrompt(), an analysis method never calls session.prompt on a
\* session that is null or whose destroy() has already been started.
C28_PromptOnLiveSession == promptTarget \in { "none", "active" }

\* the nodes of the returned list that have this id
NodesWithId(id) == { k \in 1..Len(converted.nodes) : converted.nodes[k].id = id }

\* an entity of this name has a node
HasNode(name) ==
  \E k \in 1..Len(converted.nodes) : ToLower(converted.nodes[k].label) = ToLower(name)

\* the name is the text of the node, or contains it, or is contained in it,
\* letter case aside
Matches(name, id) ==
  \E k \in NodesWithId(id) :
    \/ Includes(ToLower(converted.nodes[k].label), ToLower(name))
    \/ Includes(ToLower(name), ToLower(converted.nodes[k].label))

C30_ProcessingEnds == isProcessing ~> ~isProcessing

\* a call in which the model enhancement threw has reset isProcessing
C30_Witness ==
  /\ textRuns >= 1 /\ ~isProcessing /\ textPc = "idle"
  /\ textLog.backend = "ok" /\ textLog.model = "throws"

====
